---- MODULE Spec2Model ----
(***************************************************************************)
(* Lazarus: the ingestion pipeline of the live client (text accumulator,   *)
(* brace-matching extractor, alert normalisation) and the application's    *)
(* alert handling (incident history, evidence ring buffer, phantom         *)
(* replay).                                                                *)
(*                                                                         *)
(* Text is a sequence of runs [c |-> atom, n |-> length in characters].    *)
(* The four characters the scanner distinguishes (braces, quote,           *)
(* backslash) are always runs of length 1; every other atom is a run of    *)
(* characters that the scanner treats alike (letters, digits,              *)
(* punctuation), so that buffers of several thousand characters stay small *)
(* while every length the code computes is the true length in characters.  *)
(***************************************************************************)
EXTENDS Integers, Sequences, FiniteSets, TLC

VARIABLES
  textBuffer,      \* LazarusLiveClient.textBuffer
  wire,            \* text the remote endpoint has produced, not yet delivered
  fed,             \* number of pieces of text the remote endpoint has produced
  msgs,            \* number of whole messages delivered (live or socket)
  stream,          \* history: every run delivered to handleMessage, in order
  handed,          \* history: every span handed to the parse step, in order
  truncations,     \* history: one record per firing of the overflow cut
  lastCall,        \* history: the buffer and alert count before a call without text,
                   \* the number of spans the last call with text handed
  now,             \* Date.now()
  nextId,          \* source of crypto.randomUUID()
  alert,           \* App state `alert`
  history,         \* App state `history`
  delivered,       \* history: every alert handleNewAlert published, with the local
                   \* time of the call and the path it came by, in order
  replayChunks,    \* replayChunksRef.current
  segSeq,          \* number of dataavailable events of the phantom recorder
  accepted,        \* history: every segment the ring buffer accepted, in order
  lastAlertTime,   \* lastAlertTimeRef.current
  replayTimers,    \* pending setTimeout callbacks of triggerPhantomReplay
  replayUrl,       \* App state `replayUrl` (the blob behind the object URL)
  replayReason,    \* App state `replayReason`
  artifacts,       \* history: every (blob, reason) published, in order
  fires,           \* history: every firing of a replay timer, in order
  mode,            \* App state `mode`
  started,         \* startSequence has run
  isConnected,     \* App state `isConnected`
  isIntentionalStop, \* isIntentionalStop.current
  clients,         \* every LazarusLiveClient constructed, in order of construction
  liveClientRef,   \* liveClientRef.current: an index of clients, 0 for null
  sockets,         \* every WebSocket constructed, in order of construction
  wsRef,           \* wsRef.current: an index of sockets, 0 for null
  timers,          \* pending setTimeout callbacks of scheduleReconnect
  reconnectTimeoutRef, \* reconnectTimeoutRef.current: a timer id, 0 for null
  timerSeq,        \* number of setTimeout calls of scheduleReconnect
  faults,          \* number of failures the environment has produced
  media,           \* history: the last media block or frame offered for sending
  pcm,             \* history: the last audio block and its 16-bit conversion
  lastFire,        \* history: the last firing of a reconnect timer
  invoked,         \* history: every structured invocation the transport reported
  received         \* history: every text message a client's session delivered

vars == <<textBuffer, wire, fed, msgs, stream, handed, truncations, lastCall,
          now, nextId, alert, history, delivered, replayChunks, segSeq,
          accepted, lastAlertTime, replayTimers, replayUrl, replayReason,
          artifacts, fires, mode, started, isConnected, isIntentionalStop,
          clients, liveClientRef, sockets, wsRef, timers, reconnectTimeoutRef,
          timerSeq, faults, media, pcm, lastFire, invoked, received>>

clientVars == <<textBuffer, wire, fed, stream, handed, truncations, lastCall>>
appVars == <<nextId, alert, history, delivered, lastAlertTime, replayTimers>>
ringVars == <<replayChunks, segSeq, accepted>>
replayVars == <<replayUrl, replayReason, artifacts, fires>>
sessionVars == <<mode, started, isConnected, isIntentionalStop, clients,
                 liveClientRef, sockets, wsRef, timers, reconnectTimeoutRef,
                 timerSeq, faults, media, pcm, lastFire>>
toolVars == <<invoked, received>>
pipelineVars == <<clientVars, msgs, appVars, ringVars, replayVars, toolVars>>

(***************************************************************************)
(* Text                                                                    *)
(***************************************************************************)

\* Lengths in characters of the atoms that are longer than one character.
AtomLen ==
  [ status |-> 6, diagnosis |-> 9, confidence |-> 10, symptoms |-> 8,
    cpr_feedback |-> 12, timestamp |-> 9,
    NORMAL |-> 6, WARNING |-> 7, CRITICAL |-> 8, BOGUS |-> 5,
    Stroke |-> 6, Normal |-> 6, droop |-> 5,
    null |-> 4, json |-> 4, JSON |-> 4 ]

CharLen(c) ==
  IF c \in DOMAIN AtomLen THEN AtomLen[c]
  ELSE IF c = "0.9" \/ c = "2.5" \/ c = "FENCE" THEN 3
  ELSE IF c = "12" THEN 2
  ELSE 1

Ch(c) == [c |-> c, n |-> CharLen(c)]

Toks(s) == [i \in 1..Len(s) |-> Ch(s[i])]

\* A run of k letters.
Pad(k) == [c |-> "a", n |-> k]

RECURSIVE Weight(_)
\* String.length
Weight(s) == IF s = <<>> THEN 0 ELSE s[1].n + Weight(Tail(s))

\* A run cut by slice keeps its atom only when it is a run of letters.
CutRun(e, k) == IF e.n = k THEN e ELSE [c |-> "a", n |-> k]

RECURSIVE SliceLast(_, _)
\* String.prototype.slice(-k) on a string longer than k
SliceLast(s, k) ==
  IF k <= 0 \/ s = <<>> THEN <<>>
  ELSE LET e == s[Len(s)] IN
       IF e.n >= k THEN <<CutRun(e, k)>>
       ELSE SliceLast(SubSeq(s, 1, Len(s) - 1), k - e.n) \o <<e>>

RECURSIVE IndexFrom(_, _, _)
IndexFrom(s, c, i) ==
  IF i > Len(s) THEN 0
  ELSE IF s[i].c = c THEN i
  ELSE IndexFrom(s, c, i + 1)

\* String.prototype.indexOf(c): the position of the first c, 0 for none (-1)
IndexOf(s, c) == IndexFrom(s, c, 1)

Cs(s) == [i \in 1..Len(s) |-> s[i].c]

(***************************************************************************)
(* JSON.parse, on the atoms of a text                                      *)
(***************************************************************************)

\* A JavaScript value: its kind and the atoms that make it up.
Value(k, v) == [k |-> k, v |-> v]
Undefined == Value("undefined", <<>>)
StrVal(v) == Value("string", v)
NumVal(c) == Value("number", <<c>>)
EmptyArray == Value("array", <<>>)

NumAtoms == {"0", "0.9", "2.5", "12"}
LiteralAtoms == {"null", "true", "false"}
WhiteSpace == {" "}
\* The characters JSON allows after a backslash (u and its digits left out).
EscapeAtoms == {"\"", "\\", "/", "b", "f", "n", "r", "t"}

At(s, i) == IF i >= 1 /\ i <= Len(s) THEN s[i] ELSE "EOF"

RECURSIVE SkipWs(_, _)
SkipWs(s, i) == IF At(s, i) \in WhiteSpace THEN SkipWs(s, i + 1) ELSE i

ParseFail == [ok |-> FALSE, next |-> 0, val |-> Undefined, mem |-> <<>>]
ParseOk(next, val, mem) == [ok |-> TRUE, next |-> next, val |-> val, mem |-> mem]

RECURSIVE StrBody(_, _, _)
\* The rest of a string literal from position j; acc is its value so far.
StrBody(s, j, acc) ==
  IF j > Len(s) THEN ParseFail
  ELSE IF s[j] = "\"" THEN ParseOk(j + 1, StrVal(acc), <<>>)
  ELSE IF s[j] = "\\" THEN
         IF At(s, j + 1) \in EscapeAtoms
         THEN StrBody(s, j + 2, Append(acc, s[j + 1]))
         ELSE ParseFail
  ELSE StrBody(s, j + 1, Append(acc, s[j]))

RECURSIVE ParseValue(_, _)
RECURSIVE Members(_, _, _, _)
RECURSIVE Elements(_, _, _)

\* The members of an object opened at position open, from position j.
Members(s, open, j, mem) ==
  IF At(s, j) # "\"" THEN ParseFail
  ELSE LET key == StrBody(s, j + 1, <<>>) IN
       IF ~key.ok THEN ParseFail
       ELSE LET colon == SkipWs(s, key.next) IN
            IF At(s, colon) # ":" THEN ParseFail
            ELSE LET v == ParseValue(s, SkipWs(s, colon + 1)) IN
                 IF ~v.ok THEN ParseFail
                 ELSE LET m == SkipWs(s, v.next)
                          mem2 == Append(mem, [key |-> key.val.v, val |-> v.val])
                      IN IF At(s, m) = "," THEN Members(s, open, SkipWs(s, m + 1), mem2)
                         ELSE IF At(s, m) = "}"
                              THEN ParseOk(m + 1, Value("object", SubSeq(s, open, m)), mem2)
                              ELSE ParseFail

\* The elements of an array opened at position open, from position j.
Elements(s, open, j) ==
  LET v == ParseValue(s, j) IN
  IF ~v.ok THEN ParseFail
  ELSE LET m == SkipWs(s, v.next) IN
       IF At(s, m) = "," THEN Elements(s, open, SkipWs(s, m + 1))
       ELSE IF At(s, m) = "]"
            THEN ParseOk(m + 1, Value("array", SubSeq(s, open + 1, m - 1)), <<>>)
            ELSE ParseFail

ParseValue(s, i) ==
  LET c == At(s, i) IN
  IF c = "{" THEN
       LET j == SkipWs(s, i + 1) IN
       IF At(s, j) = "}" THEN ParseOk(j + 1, Value("object", SubSeq(s, i, j)), <<>>)
       ELSE Members(s, i, j, <<>>)
  ELSE IF c = "[" THEN
       LET j == SkipWs(s, i + 1) IN
       IF At(s, j) = "]" THEN ParseOk(j + 1, EmptyArray, <<>>)
       ELSE Elements(s, i, j)
  ELSE IF c = "\"" THEN StrBody(s, i + 1, <<>>)
  ELSE IF c \in NumAtoms THEN ParseOk(i + 1, NumVal(c), <<>>)
  ELSE IF c \in LiteralAtoms THEN ParseOk(i + 1, Value(c, <<>>), <<>>)
  ELSE ParseFail

\* JSON.parse(text): ok is FALSE where JSON.parse throws.
JSONparse(s) ==
  LET v == ParseValue(s, SkipWs(s, 1)) IN
  IF v.ok /\ SkipWs(s, v.next) > Len(s) THEN v ELSE ParseFail

RECURSIVE GetFrom(_, _, _)
GetFrom(mem, key, i) ==
  IF i = 0 THEN Undefined
  ELSE IF mem[i].key = <<key>> THEN mem[i].val
  ELSE GetFrom(mem, key, i - 1)

\* parsed.key: the last member of that name wins, a missing one is undefined
Get(parsed, key) == GetFrom(parsed.mem, key, Len(parsed.mem))

\* JavaScript truthiness, as `||` and `&&` test it
Truthy(val) ==
  CASE val.k = "string" -> val.v # <<>>
    [] val.k = "number" -> val.v # <<"0">>
    [] val.k = "true" -> TRUE
    [] val.k \in {"object", "array"} -> TRUE
    [] OTHER -> FALSE

\* A default that only replaces a missing value.
OrElseMissing(a, b) == IF a = Undefined THEN b ELSE a

\* a || b
OrElse(a, b) == IF Truthy(a) THEN a ELSE b

RECURSIVE RemoveFenceJson(_)
\* replace(/```json/gi, "")
RemoveFenceJson(s) ==
  IF s = <<>> THEN <<>>
  ELSE IF Len(s) >= 2 /\ s[1] = "FENCE" /\ s[2] \in {"json", "JSON"}
       THEN RemoveFenceJson(SubSeq(s, 3, Len(s)))
       ELSE <<s[1]>> \o RemoveFenceJson(Tail(s))

\* replace(/```/g, "")
RemoveFence(s) == SelectSeq(s, LAMBDA c : c # "FENCE")

RECURSIVE TrimLeft(_)
TrimLeft(s) ==
  IF s # <<>> /\ s[1] \in WhiteSpace THEN TrimLeft(Tail(s)) ELSE s

RECURSIVE TrimRight(_)
TrimRight(s) ==
  IF s # <<>> /\ s[Len(s)] \in WhiteSpace THEN TrimRight(SubSeq(s, 1, Len(s) - 1)) ELSE s

\* String.prototype.trim
Trim(s) == TrimRight(TrimLeft(s))

cleanJson(jsonStr) == Trim(RemoveFence(RemoveFenceJson(jsonStr)))

(***************************************************************************)
(* Alerts and the application's alert handling                             *)
(***************************************************************************)

\* A timestamp that is undefined (arithmetic on it yields NaN).
NoTime == -1

\* Number(val) for a timestamp field: NoTime where it is undefined or NaN.
ToTime(val) ==
  IF val.k # "number" THEN NoTime
  ELSE CASE val.v = <<"0">> -> 0
         [] val.v = <<"12">> -> 12
         [] OTHER -> 1

CRITICAL == StrVal(<<"CRITICAL">>)
WARNING == StrVal(<<"WARNING">>)
NORMAL == StrVal(<<"NORMAL">>)
\* enum DiagnosisStatus
DiagnosisStatus == {NORMAL, WARNING, CRITICAL}

\* a === b: objects and arrays are equal only to themselves
StrictEq(a, b) == a = b /\ a.k \notin {"object", "array"}

\* a - b < d, false when either side is NaN
DiffLess(a, b, d) == a # NoTime /\ b # NoTime /\ a - b < d

DebounceMs == 10000
GraceMs == 500
DedupeMs == 2000
HistoryCap == 10
RingCap == 5

\* The application state that handleNewAlert reads and writes.
AppState(path) ==
  [nextId |-> nextId, alert |-> alert, history |-> history,
   delivered |-> delivered, lastAlertTime |-> lastAlertTime,
   replayTimers |-> replayTimers, path |-> path]

\* A trigger that is never debounced.
triggerNoDebounce(app, currentAlert, t) ==
  [app EXCEPT !.lastAlertTime = t,
              !.replayTimers = Append(@, [at |-> t + GraceMs, alert |-> currentAlert])]

\* A trigger debounced for half as long.
triggerShortDebounce(app, currentAlert, t) ==
  IF 2 * (t - app.lastAlertTime) < DebounceMs THEN app
  ELSE [app EXCEPT !.lastAlertTime = t,
                   !.replayTimers = Append(@, [at |-> t + GraceMs, alert |-> currentAlert])]

\* A trigger debounced for twice as long.
triggerLongDebounce(app, currentAlert, t) ==
  IF t - app.lastAlertTime < 2 * DebounceMs THEN app
  ELSE [app EXCEPT !.lastAlertTime = t,
                   !.replayTimers = Append(@, [at |-> t + GraceMs, alert |-> currentAlert])]

\* triggerPhantomReplay up to its setTimeout: the debounce and the timer.
triggerPhantomReplay(app, currentAlert, t) ==
  IF t - app.lastAlertTime < DebounceMs THEN app
  ELSE [app EXCEPT !.lastAlertTime = t,
                   !.replayTimers = Append(@, [at |-> t + GraceMs, alert |-> currentAlert])]

\* A history that refuses the newest entry once it is full.
setHistoryKeepOldest(prev, newAlert, alertWithId) ==
  IF prev # <<>>
     /\ StrictEq(prev[Len(prev)].diagnosis, newAlert.diagnosis)
     /\ DiffLess(newAlert.timestamp, prev[Len(prev)].timestamp, DedupeMs)
  THEN prev
  ELSE IF Len(prev) >= HistoryCap THEN prev ELSE Append(prev, alertWithId)

\* The updater handed to setHistory.
setHistory(prev, newAlert, alertWithId) ==
  IF prev # <<>>
     /\ StrictEq(prev[Len(prev)].diagnosis, newAlert.diagnosis)
     /\ DiffLess(newAlert.timestamp, prev[Len(prev)].timestamp, DedupeMs)
  THEN prev
  ELSE LET updated == Append(prev, alertWithId) IN
       IF Len(updated) > HistoryCap THEN Tail(updated) ELSE updated

\* handleNewAlert asking for a replay whatever the status.
handleNewAlertAnyStatus(app, newAlert, t) ==
  LET alertWithId == [newAlert EXCEPT !.id = app.nextId]
      app1 == [app EXCEPT !.nextId = @ + 1,
                          !.alert = <<alertWithId>>,
                          !.history = setHistory(@, newAlert, alertWithId),
                          !.delivered = Append(@, [alert |-> alertWithId, at |-> t,
                                                   path |-> app.path])]
  IN triggerPhantomReplay(app1, alertWithId, t)

handleNewAlert(app, newAlert, t) ==
  LET alertWithId == [newAlert EXCEPT !.id = app.nextId]
      app1 == [app EXCEPT !.nextId = @ + 1,
                          !.alert = <<alertWithId>>,
                          !.history = setHistory(@, newAlert, alertWithId),
                          !.delivered = Append(@, [alert |-> alertWithId, at |-> t,
                                                   path |-> app.path])]
  IN IF StrictEq(newAlert.status, CRITICAL)
     THEN triggerPhantomReplay(app1, alertWithId, t)
     ELSE app1

RECURSIVE handleAll(_, _, _)
\* handleNewAlert for each alert of a sequence, in order
handleAll(app, alerts, t) ==
  IF alerts = <<>> THEN app
  ELSE handleAll(handleNewAlert(app, alerts[1], t), Tail(alerts), t)

SetApp(app) ==
  /\ nextId' = app.nextId
  /\ alert' = app.alert
  /\ history' = app.history
  /\ delivered' = app.delivered
  /\ lastAlertTime' = app.lastAlertTime
  /\ replayTimers' = app.replayTimers

(***************************************************************************)
(* LazarusLiveClient: the text accumulator and the extractor               *)
(***************************************************************************)

BufferCap == 5000
KeepTail == 2000

\* Mutant of Truncate: the cut keeps the last 5,000 characters.
TruncateToCap(buffer) ==
  IF Weight(buffer) > BufferCap THEN SliceLast(buffer, BufferCap) ELSE buffer

\* Mutant of Truncate: the buffer is never cut.
TruncateNever(buffer) == buffer

\* The overflow cut at the head of tryParseBuffer.
Truncate(buffer) ==
  IF Weight(buffer) > BufferCap THEN SliceLast(buffer, KeepTail) ELSE buffer

RECURSIVE scanFromNoEscape(_, _, _, _, _)
\* Mutant of scanFrom: a backslash in a string does not escape what follows.
scanFromNoEscape(buffer, i, braceCount, inString, escaped) ==
  IF i > Len(buffer) THEN 0
  ELSE LET char == buffer[i].c IN
       IF inString THEN
            scanFromNoEscape(buffer, i + 1, braceCount, char # "\"", escaped)
       ELSE IF char = "\"" THEN scanFromNoEscape(buffer, i + 1, braceCount, TRUE, escaped)
            ELSE IF char = "{" THEN scanFromNoEscape(buffer, i + 1, braceCount + 1, inString, escaped)
            ELSE IF char = "}" THEN
                   IF braceCount - 1 = 0 THEN i
                   ELSE scanFromNoEscape(buffer, i + 1, braceCount - 1, inString, escaped)
            ELSE scanFromNoEscape(buffer, i + 1, braceCount, inString, escaped)

RECURSIVE scanFromStickyEscape(_, _, _, _, _)
\* Mutant of scanFrom: every backslash in a string escapes what follows, also
\* a backslash that is itself escaped.
scanFromStickyEscape(buffer, i, braceCount, inString, escaped) ==
  IF i > Len(buffer) THEN 0
  ELSE LET char == buffer[i].c IN
       IF inString THEN
            IF char = "\\" THEN scanFromStickyEscape(buffer, i + 1, braceCount, inString, TRUE)
            ELSE IF char = "\"" /\ ~escaped THEN scanFromStickyEscape(buffer, i + 1, braceCount, FALSE, escaped)
            ELSE scanFromStickyEscape(buffer, i + 1, braceCount, inString, FALSE)
       ELSE IF char = "\"" THEN scanFromStickyEscape(buffer, i + 1, braceCount, TRUE, escaped)
            ELSE IF char = "{" THEN scanFromStickyEscape(buffer, i + 1, braceCount + 1, inString, escaped)
            ELSE IF char = "}" THEN
                   IF braceCount - 1 = 0 THEN i
                   ELSE scanFromStickyEscape(buffer, i + 1, braceCount - 1, inString, escaped)
            ELSE scanFromStickyEscape(buffer, i + 1, braceCount, inString, escaped)

RECURSIVE scanFrom(_, _, _, _, _)
\* The scan for the matching closing brace: endIndex, 0 for none (-1).
scanFrom(buffer, i, braceCount, inString, escaped) ==
  IF i > Len(buffer) THEN 0
  ELSE LET char == buffer[i].c IN
       IF inString THEN
            IF char = "\\" /\ ~escaped THEN scanFrom(buffer, i + 1, braceCount, inString, TRUE)
            ELSE IF char = "\"" /\ ~escaped THEN scanFrom(buffer, i + 1, braceCount, FALSE, escaped)
            ELSE scanFrom(buffer, i + 1, braceCount, inString, FALSE)
       ELSE IF char = "\"" THEN scanFrom(buffer, i + 1, braceCount, TRUE, escaped)
            ELSE IF char = "{" THEN scanFrom(buffer, i + 1, braceCount + 1, inString, escaped)
            ELSE IF char = "}" THEN
                   IF braceCount - 1 = 0 THEN i
                   ELSE scanFrom(buffer, i + 1, braceCount - 1, inString, escaped)
            ELSE scanFrom(buffer, i + 1, braceCount, inString, escaped)

\* The argument of onAlert: the parsed object's fields with their defaults.
normalize(parsed, t) ==
  [ status |-> Get(parsed, "status"),
    diagnosis |-> OrElse(Get(parsed, "diagnosis"), StrVal(<<"Unknown Diagnosis">>)),
    confidence |-> OrElse(Get(parsed, "confidence"), NumVal("0")),
    symptoms |-> OrElse(Get(parsed, "symptoms"), EmptyArray),
    cpr_feedback |-> Get(parsed, "cpr_feedback"),
    timestamp |-> t,
    id |-> 0 ]

\* What the try block does with an extracted span: the alerts it emits.
parseSpan(jsonStr, t) ==
  LET parsed == JSONparse(cleanJson(jsonStr)) IN
  IF parsed.ok /\ Truthy(Get(parsed, "status")) THEN <<normalize(parsed, t)>> ELSE <<>>

RECURSIVE extractLoop(_, _, _, _, _)

\* Mutant of extractLoop: the object found last in a pass is emitted first.
extractLoopLastFirst(buffer, base, old, t, out) ==
  LET startIndex == IndexOf(buffer, "{") IN
  IF startIndex = 0 THEN [buffer |-> buffer, out |-> out]
  ELSE LET endIndex == scanFrom(buffer, startIndex, 0, FALSE, FALSE) IN
       IF endIndex = 0 THEN [buffer |-> buffer, out |-> out]
       ELSE LET jsonStr == Cs(SubSeq(buffer, startIndex, endIndex))
                rest == SubSeq(buffer, endIndex + 1, Len(buffer))
                r == extractLoop(rest, base + endIndex, old, t, out)
            IN [buffer |-> r.buffer,
                out |-> Append(r.out, [from |-> base + startIndex, to |-> base + endIndex,
                                       span |-> jsonStr, carried |-> base + startIndex <= old,
                                       alerts |-> parseSpan(jsonStr, t)])]

\* Mutant of extractLoop: one object is extracted in a pass.
extractLoopOnce(buffer, base, old, t, out) ==
  LET startIndex == IndexOf(buffer, "{") IN
  IF startIndex = 0 THEN [buffer |-> buffer, out |-> out]
  ELSE LET endIndex == scanFrom(buffer, startIndex, 0, FALSE, FALSE) IN
       IF endIndex = 0 THEN [buffer |-> buffer, out |-> out]
       ELSE LET jsonStr == Cs(SubSeq(buffer, startIndex, endIndex))
                rest == SubSeq(buffer, endIndex + 1, Len(buffer))
            IN [buffer |-> rest,
                out |-> Append(out, [from |-> base + startIndex, to |-> base + endIndex,
                                     span |-> jsonStr, carried |-> base + startIndex <= old,
                                     alerts |-> parseSpan(jsonStr, t)])]

\* Mutant of extractLoop: a span that fails to parse stays in the buffer.
extractLoopRetry(buffer, base, old, t, out) ==
  LET startIndex == IndexOf(buffer, "{") IN
  IF startIndex = 0 THEN [buffer |-> buffer, out |-> out]
  ELSE LET endIndex == scanFrom(buffer, startIndex, 0, FALSE, FALSE) IN
       IF endIndex = 0 THEN [buffer |-> buffer, out |-> out]
       ELSE LET jsonStr == Cs(SubSeq(buffer, startIndex, endIndex))
                rest == SubSeq(buffer, endIndex + 1, Len(buffer))
                entry == [from |-> base + startIndex, to |-> base + endIndex,
                          span |-> jsonStr, carried |-> base + startIndex <= old,
                          alerts |-> parseSpan(jsonStr, t)]
            IN IF JSONparse(cleanJson(jsonStr)).ok
               THEN extractLoop(rest, base + endIndex, old, t, Append(out, entry))
               ELSE [buffer |-> buffer, out |-> Append(out, entry)]

\* Mutant of extractLoop: when the first opening brace has no balancing brace
\* the scan drops it and goes on from the next opening brace.
extractLoopSkip(buffer, base, old, t, out) ==
  LET startIndex == IndexOf(buffer, "{") IN
  IF startIndex = 0 THEN [buffer |-> buffer, out |-> out]
  ELSE LET endIndex == scanFrom(buffer, startIndex, 0, FALSE, FALSE) IN
       IF endIndex = 0
       THEN IF IndexFrom(buffer, "{", startIndex + 1) = 0
            THEN [buffer |-> buffer, out |-> out]
            ELSE extractLoop(SubSeq(buffer, startIndex + 1, Len(buffer)),
                             base + startIndex, old, t, out)
       ELSE LET jsonStr == Cs(SubSeq(buffer, startIndex, endIndex))
                rest == SubSeq(buffer, endIndex + 1, Len(buffer))
            IN extractLoop(rest, base + endIndex, old, t,
                 Append(out, [from |-> base + startIndex, to |-> base + endIndex,
                              span |-> jsonStr, carried |-> base + startIndex <= old,
                              alerts |-> parseSpan(jsonStr, t)]))

\* The while loop of tryParseBuffer. base is the number of runs of the stream
\* that precede the buffer and old the number that earlier calls delivered;
\* out collects the spans handed to the parse step.
extractLoop(buffer, base, old, t, out) ==
  LET startIndex == IndexOf(buffer, "{") IN
  IF startIndex = 0 THEN [buffer |-> buffer, out |-> out]
  ELSE LET endIndex == scanFrom(buffer, startIndex, 0, FALSE, FALSE) IN
       IF endIndex = 0 THEN [buffer |-> buffer, out |-> out]
       ELSE LET jsonStr == Cs(SubSeq(buffer, startIndex, endIndex))
                rest == SubSeq(buffer, endIndex + 1, Len(buffer))
            IN extractLoop(rest, base + endIndex, old, t,
                 Append(out, [from |-> base + startIndex, to |-> base + endIndex,
                              span |-> jsonStr, carried |-> base + startIndex <= old,
                              alerts |-> parseSpan(jsonStr, t)]))

\* Mutant of tryParseBuffer: the text before the first opening brace is dropped
\* from the buffer that is stored.
tryParseBufferDropPrefix(accumulated, base, old, t) ==
  LET buffer == Truncate(accumulated)
      r == extractLoop(buffer, base + Len(accumulated) - Len(buffer), old, t, <<>>)
      startIndex == IndexOf(r.buffer, "{")
  IN [buffer |-> IF startIndex = 0 THEN <<>>
                 ELSE SubSeq(r.buffer, startIndex, Len(r.buffer)),
      out |-> r.out, scanned |-> buffer,
      cut |-> Weight(accumulated) > BufferCap]

\* tryParseBuffer on the accumulated text (the stored buffer, of which base
\* runs of the stream precede the first, followed by the new text): the buffer
\* it leaves, the spans it handed to the parse step, and the buffer as the
\* scan started on it.
tryParseBuffer(accumulated, base, old, t) ==
  LET buffer == Truncate(accumulated)
      r == extractLoop(buffer, base + Len(accumulated) - Len(buffer), old, t, <<>>)
  IN [buffer |-> r.buffer, out |-> r.out, scanned |-> buffer,
      cut |-> Weight(accumulated) > BufferCap]

\* lastCall after a call that carried text, and before any call
NoCall == [empty |-> FALSE, before |-> <<>>, alerts |-> 0, spans |-> 0]

RECURSIVE AlertsOf(_)
AlertsOf(out) == IF out = <<>> THEN <<>> ELSE out[1].alerts \o AlertsOf(Tail(out))

\* The body of handleMessage's `if (text)`: append, then tryParseBuffer with
\* every onAlert call it makes.
appendAndParse(text) ==
  LET r == tryParseBuffer(textBuffer \o text, Len(stream) - Len(textBuffer),
                          Len(stream), now) IN
  /\ textBuffer' = r.buffer
  /\ handed' = handed \o r.out
  /\ truncations' =
       IF r.cut
       THEN Append(truncations,
              [kept |-> Weight(r.scanned), before |-> Len(handed),
               window |-> Len(stream) + Len(text) - Len(r.scanned)])
       ELSE truncations
  /\ lastCall' = [NoCall EXCEPT !.spans = Len(r.out)]
  /\ SetApp(handleAll(AppState("live"), AlertsOf(r.out), now))

\* Mutant of handleMessage: a message without text resets the buffer.
handleMessageReset(text) ==
  /\ stream' = stream \o text
  /\ IF text # <<>>
     THEN appendAndParse(text)
     ELSE /\ lastCall' = [empty |-> TRUE, before |-> textBuffer, alerts |-> Len(delivered),
                          spans |-> 0]
          /\ textBuffer' = <<>>
          /\ UNCHANGED <<handed, truncations, appVars>>

\* handleMessage(message) with message.serverContent.modelTurn.parts[0].text = text
handleMessage(text) ==
  /\ stream' = stream \o text
  /\ IF text # <<>>
     THEN appendAndParse(text)
     ELSE /\ lastCall' = [empty |-> TRUE, before |-> textBuffer, alerts |-> Len(delivered),
                          spans |-> 0]
          /\ UNCHANGED <<textBuffer, handed, truncations, appVars>>

(***************************************************************************)
(* The remote endpoint's text and its delivery in fragments                *)
(***************************************************************************)

Q(c) == <<"\"", c, "\"">>
KV(k, v) == Q(k) \o <<":">> \o v
Obj(members) == <<"{">> \o members \o <<"}">>

\* {"status":"CRITICAL"}
ObjCritical == Toks(Obj(KV("status", Q("CRITICAL"))))
\* {"status":"}\"{"}
ObjBraces == Toks(Obj(KV("status", <<"\"", "}", "\\", "\"", "{", "\"">>)))
\* {"a":{}}
ObjNested == Toks(Obj(KV("a", <<"{", "}">>)))
\* text between objects: a stray closing brace and a stray quote
Noise == Toks(<<"}", "\"">>)
\* an object opened and left open, followed by 2,600 letters
OpenObj == Toks(<<"{">>) \o <<Pad(2600)>>
\* {"diagnosis":" followed by 2,600 letters: an object and a string left open
OpenStr == Toks(<<"{">> \o Q("diagnosis") \o <<":", "\"">>) \o <<Pad(2600)>>
\* 2,600 letters
Letters == <<Pad(2600)>>
\* {}"} : braces inside the string that OpenStr left open, then its end
CloseStr == Toks(<<"{", "}", "\"", "}">>)

\* The pieces of text the remote endpoint produces under Spec.
Catalogue ==
  { ObjCritical, ObjBraces, ObjNested, Noise, OpenObj, OpenStr, Letters, CloseStr }

MaxItems == 3

\* The remote endpoint produces one more piece of text.
Feed(item) ==
  /\ fed < MaxItems
  /\ fed' = fed + 1
  /\ wire' = wire \o item
  /\ UNCHANGED <<textBuffer, msgs, stream, handed, truncations, lastCall, now,
                 appVars, ringVars, replayVars, sessionVars, toolVars>>

\* The transport delivers the next k runs of the text as one message.
Deliver(k) ==
  /\ k <= Len(wire)
  /\ wire' = SubSeq(wire, k + 1, Len(wire))
  /\ handleMessage(SubSeq(wire, 1, k))
  /\ UNCHANGED <<fed, msgs, now, ringVars, replayVars, sessionVars, toolVars>>

\* The transport delivers a message that carries no text.
DeliverEmpty ==
  /\ handleMessage(<<>>)
  /\ UNCHANGED <<wire, fed, msgs, now, ringVars, replayVars, sessionVars, toolVars>>

Epoch == 100000

\* A Float32 sample is num / SampleDen, or NaN.
SampleDen == 4
Sample(k) == [nan |-> FALSE, num |-> k]
NaN == [nan |-> TRUE, num |-> 0]
PcmNegScale == 32768
PcmPosScale == 32767

\* The store into an Int16Array element of the number a / b: the fraction is
\* dropped, then the integer is taken modulo 2^16 into the signed range.
ToInt16(a, b) ==
  LET n == IF a >= 0 THEN a \div b ELSE -((-a) \div b)
  IN ((n + 32768) % 65536) - 32768

\* One element of the loop of floatTo16BitPCM without the clamp.
PcmSampleNoClamp(x) ==
  IF x.nan THEN 0
  ELSE IF x.num < 0 THEN ToInt16(x.num * PcmNegScale, SampleDen)
       ELSE ToInt16(x.num * PcmPosScale, SampleDen)

\* The store of the number a / b rounded to the nearest integer.
ToInt16Nearest(a, b) ==
  LET n == IF a >= 0 THEN (2 * a + b) \div (2 * b) ELSE -((2 * (-a) + b) \div (2 * b))
  IN ((n + 32768) % 65536) - 32768

\* One element of the loop of floatTo16BitPCM, rounding instead of dropping
\* the fraction.
PcmSampleNearest(x) ==
  IF x.nan THEN 0
  ELSE LET lo == IF x.num < SampleDen THEN x.num ELSE SampleDen
           s == IF lo > -SampleDen THEN lo ELSE -SampleDen
       IN IF s < 0 THEN ToInt16Nearest(s * PcmNegScale, SampleDen)
          ELSE ToInt16Nearest(s * PcmPosScale, SampleDen)

\* One element of the loop of floatTo16BitPCM:
\* s = Math.max(-1, Math.min(1, input[i])); output[i] = s < 0 ? s * 0x8000 : s * 0x7FFF
PcmSample(x) ==
  IF x.nan THEN 0
  ELSE LET lo == IF x.num < SampleDen THEN x.num ELSE SampleDen
           s == IF lo > -SampleDen THEN lo ELSE -SampleDen
       IN IF s < 0 THEN ToInt16(s * PcmNegScale, SampleDen)
          ELSE ToInt16(s * PcmPosScale, SampleDen)

floatTo16BitPCMNoClamp(input) == [i \in DOMAIN input |-> PcmSampleNoClamp(input[i])]

floatTo16BitPCM(input) == [i \in DOMAIN input |-> PcmSample(input[i])]

\* The samples and blocks the audio source produces.
MaxSample == 9
MaxBlock == 2
Samples == {Sample(k) : k \in -MaxSample..MaxSample} \cup {NaN}
Blocks == UNION {[1..n -> Samples] : n \in 1..MaxBlock}
SessionBlocks == {<<Sample(6)>>, <<Sample(-8), Sample(1)>>}
NoBlock == [input |-> <<>>, output |-> <<>>]

\* No media offered yet; no reconnect timer fired yet.
NoMedia ==
  [kind |-> "none", target |-> 0, checked |-> FALSE, valid |-> FALSE,
   sent |-> FALSE, openAtSend |-> FALSE]
NoFire == [timer |-> 0, cause |-> 0, current |-> 0, healthy |-> FALSE]

Init ==
  /\ textBuffer = <<>>
  /\ wire = <<>>
  /\ fed = 0
  /\ msgs = 0
  /\ stream = <<>>
  /\ handed = <<>>
  /\ truncations = <<>>
  /\ lastCall = NoCall
  /\ now = Epoch
  /\ nextId = 1
  /\ alert = <<>>
  /\ history = <<>>
  /\ delivered = <<>>
  /\ replayChunks = <<>>
  /\ segSeq = 0
  /\ accepted = <<>>
  /\ lastAlertTime = 0
  /\ replayTimers = <<>>
  /\ replayUrl = <<>>
  /\ replayReason = <<>>
  /\ artifacts = <<>>
  /\ fires = <<>>
  /\ mode = "LIVE_CLIENT"
  /\ started = FALSE
  /\ isConnected = FALSE
  /\ isIntentionalStop = FALSE
  /\ clients = <<>>
  /\ liveClientRef = 0
  /\ sockets = <<>>
  /\ wsRef = 0
  /\ timers = {}
  /\ reconnectTimeoutRef = 0
  /\ timerSeq = 0
  /\ faults = 0
  /\ media = NoMedia
  /\ pcm = NoBlock
  /\ lastFire = NoFire
  /\ invoked = <<>>
  /\ received = <<>>

Next ==
  \/ \E item \in Catalogue : Feed(item)
  \/ \E k \in 1..Len(wire) : Deliver(k)
  \/ DeliverEmpty

Spec == Init /\ [][Next]_vars

\* {" then k backslashes, then "}"} : the first quote after the backslashes
\* ends the string or is escaped; the text ends in a second quote and brace.
MaxBackslashes == 4
EscObj(k) ==
  Toks(<<"{", "\"">> \o [i \in 1..k |-> "\\"] \o <<"\"", "}", "\"", "}">>)

\* The pieces of text the remote endpoint produces under SpecEscape.
EscCatalogue == {EscObj(k) : k \in 0..MaxBackslashes}

NextEscape ==
  \/ \E item \in EscCatalogue : Feed(item)
  \/ \E k \in 1..Len(wire) : Deliver(k)
  \/ DeliverEmpty

\* The extractor on strings that hold runs of backslashes before a quote.
SpecEscape == Init /\ [][NextEscape]_vars

\* {a} : balanced, and not structured data
ObjBad == Toks(<<"{", "a", "}">>)
\* 5,200 letters
Flood == <<Pad(5200)>>

\* The pieces of text the remote endpoint produces under SpecParse.
ParseCatalogue == { ObjBad, ObjCritical, ObjBraces, Noise, Flood }

NextParse ==
  \/ \E item \in ParseCatalogue : Feed(item)
  \/ \E k \in 1..Len(wire) : Deliver(k)
  \/ DeliverEmpty

\* The extractor on text that holds balanced spans that are not structured data.
SpecParse == Init /\ [][NextParse]_vars

\* {{"status":"CRITICAL"} : a brace left open, then an object
BlockedObj == Toks(<<"{">>) \o ObjCritical
\* {"{"status":"CRITICAL"} : a brace and a string left open, then an object
BlockedStr == Toks(<<"{", "\"">>) \o ObjCritical

\* The pieces of text the remote endpoint produces under SpecBlock.
BlockCatalogue == { BlockedObj, BlockedStr, ObjCritical, Flood }

NextBlock ==
  \/ \E item \in BlockCatalogue : Feed(item)
  \/ \E k \in 1..Len(wire) : Deliver(k)
  \/ DeliverEmpty

\* The extractor on text that opens a brace and never balances it.
SpecBlock == Init /\ [][NextBlock]_vars

(***************************************************************************)
(* Whole messages, the fallback socket, the clock, the phantom recorder    *)
(***************************************************************************)

\* {"status":"CRITICAL","diagnosis":"Stroke","confidence":0.9,"symptoms":["droop"]}
ObjStroke ==
  Toks(Obj(KV("status", Q("CRITICAL")) \o <<",">> \o KV("diagnosis", Q("Stroke"))
           \o <<",">> \o KV("confidence", <<"0.9">>) \o <<",">>
           \o KV("symptoms", <<"[">> \o Q("droop") \o <<"]">>)))
\* {"status":"NORMAL","timestamp":12}
ObjNormalStamped ==
  Toks(Obj(KV("status", Q("NORMAL")) \o <<",">> \o KV("timestamp", <<"12">>)))
\* {"status":"WARNING","diagnosis":"","confidence":0,"symptoms":null}
ObjFalsy ==
  Toks(Obj(KV("status", Q("WARNING")) \o <<",">> \o KV("diagnosis", <<"\"", "\"">>)
           \o <<",">> \o KV("confidence", <<"0">>) \o <<",">>
           \o KV("symptoms", <<"null">>)))
\* {"status":"BOGUS"}
ObjBogus == Toks(Obj(KV("status", Q("BOGUS"))))
\* {"diagnosis":"Stroke"}
ObjNoStatus == Toks(Obj(KV("diagnosis", Q("Stroke"))))

\* The texts that arrive as one whole message on the live session.
AlertTexts == {ObjStroke, ObjCritical, ObjNormalStamped, ObjFalsy, ObjBogus, ObjNoStatus}

\* The messages of the fallback socket: JSON objects, and text that is no JSON.
WsTexts == {ObjStroke, ObjNormalStamped, ObjBogus, ObjNoStatus, Noise}

MaxMessages == 3

\* The live session delivers one whole text as one message.
LiveText(text) ==
  /\ msgs < MaxMessages
  /\ msgs' = msgs + 1
  /\ handleMessage(text)
  /\ UNCHANGED <<wire, fed, now, ringVars, replayVars, sessionVars, toolVars>>

\* The structured invocations the transport may report: toolCall.functionCalls
\* with one call, its id, its name and the status among its arguments.
ToolCalls ==
  {[id |-> i, name |-> "report_alert", status |-> st] : i \in 1..2, st \in {CRITICAL, NORMAL}}

\* onmessage with a message that carries an invocation and no text:
\* handleMessage reads only serverContent.modelTurn.parts[0].text and sends
\* nothing over the session.
ToolCallMessage(call) ==
  /\ msgs < MaxMessages
  /\ msgs' = msgs + 1
  /\ handleMessage(<<>>)
  /\ invoked' = Append(invoked, [call |-> call, alerts |-> Len(delivered') - Len(delivered),
                                 acks |-> 0])
  /\ UNCHANGED <<wire, fed, now, ringVars, replayVars, sessionVars, received>>

\* ```json {"status":"CRITICAL","diagnosis":"Stroke",...} ``` with the label
\* in lower and in upper case
Fenced(label) == Toks(<<"FENCE", label, " ">>) \o ObjStroke \o Toks(<<" ", "FENCE">>)
\* {"status":"CRITICAL","diagnosis":"```"}
ObjFenceInString ==
  Toks(Obj(KV("status", Q("CRITICAL")) \o <<",">> \o KV("diagnosis", Q("FENCE"))))
\* {"status":"WARNING","diagnosis":"Stroke```json"}
ObjLabelInString ==
  Toks(Obj(KV("status", Q("WARNING")) \o <<",">>
           \o KV("diagnosis", <<"\"", "Stroke", "FENCE", "json", "\"">>)))

\* The texts the live session delivers under SpecFence.
FenceTexts == {ObjStroke, Fenced("json"), Fenced("JSON"), ObjFenceInString, ObjLabelInString}

NextFence == \E text \in FenceTexts : LiveText(text)

\* The live session when the remote endpoint uses markdown code fences.
SpecFence == Init /\ [][NextFence]_vars

NextTool ==
  \/ \E call \in ToolCalls : ToolCallMessage(call)
  \/ \E text \in AlertTexts : LiveText(text)

\* The live session when the transport reports invocations as well as text.
SpecTool == Init /\ [][NextTool]_vars

\* The object JSON.parse returned, read as a MedicalAlert.
asAlert(parsed) ==
  [ status |-> Get(parsed, "status"),
    diagnosis |-> Get(parsed, "diagnosis"),
    confidence |-> Get(parsed, "confidence"),
    symptoms |-> Get(parsed, "symptoms"),
    cpr_feedback |-> Get(parsed, "cpr_feedback"),
    timestamp |-> ToTime(Get(parsed, "timestamp")),
    id |-> 0 ]

\* ws.onmessage of startWebSocketServer
WsMessage(text) ==
  /\ msgs < MaxMessages
  /\ msgs' = msgs + 1
  /\ LET data == JSONparse(Cs(text)) IN
     IF data.ok
     THEN SetApp(handleNewAlert(AppState("ws"), asAlert(data), now))
     ELSE UNCHANGED appVars
  /\ UNCHANGED <<clientVars, now, ringVars, replayVars, sessionVars, toolVars>>

TickSteps == {1500, 9000}
MaxElapsed == 11500

\* The earliest moment a pending timer is due, or t when none is pending before t.
Due(t) ==
  IF replayTimers # <<>> /\ replayTimers[1].at < t THEN replayTimers[1].at ELSE t

\* Time passes, and stops at the moment the next pending timer is due.
Tick(d) ==
  /\ Due(now + d) <= Epoch + MaxElapsed
  /\ now' = Due(now + d)
  /\ now' > now
  /\ UNCHANGED <<clientVars, msgs, appVars, ringVars, replayVars, sessionVars, toolVars>>

MaxSegments == 7
SegmentSizes == {0, 1}

\* A ring that refuses the newest chunk once it is full.
pushChunkKeepOldest(chunks, chunk) ==
  IF Len(chunks) >= RingCap THEN chunks ELSE Append(chunks, chunk)

\* replayChunksRef.current.push(e.data), then shift() when longer than five
pushChunk(chunks, chunk) ==
  LET pushed == Append(chunks, chunk) IN
  IF Len(pushed) > RingCap THEN Tail(pushed) ELSE pushed

\* rec.ondataavailable of startPhantomBuffer, for a chunk of the given size
SegmentReady(size) ==
  /\ segSeq < MaxSegments
  /\ segSeq' = segSeq + 1
  /\ IF size > 0
     THEN /\ replayChunks' = pushChunk(replayChunks, [seq |-> segSeq + 1, size |-> size])
          /\ accepted' = Append(accepted, [seq |-> segSeq + 1, size |-> size])
     ELSE UNCHANGED <<replayChunks, accepted>>
  /\ UNCHANGED <<clientVars, msgs, now, appVars, replayVars, sessionVars, toolVars>>

\* The callback that triggerPhantomReplay handed to setTimeout, when it is due.
ReplayTimerFire ==
  /\ replayTimers # <<>>
  /\ replayTimers[1].at <= now
  /\ replayTimers' = Tail(replayTimers)
  /\ LET currentAlert == replayTimers[1].alert
         reason == [diagnosis |-> currentAlert.diagnosis, symptoms |-> currentAlert.symptoms]
         fired == [alert |-> currentAlert.id, set |-> replayTimers[1].at - GraceMs,
                   ring |-> Len(replayChunks), at |-> now]
     IN /\ fires' = Append(fires, fired)
        /\ IF Len(replayChunks) > 0
           THEN /\ replayUrl' = <<replayChunks>>
                \* symptoms.join throws unless symptoms is an array
                /\ replayReason' = IF currentAlert.symptoms.k = "array" THEN <<reason>> ELSE replayReason
                /\ artifacts' = Append(artifacts,
                     [blob |-> replayChunks, reason |-> replayReason',
                      alert |-> currentAlert.id, set |-> fired.set, at |-> now,
                      upto |-> Len(accepted)])
           ELSE UNCHANGED <<replayUrl, replayReason, artifacts>>
  /\ UNCHANGED <<clientVars, msgs, now, nextId, alert, history, delivered,
                 lastAlertTime, ringVars, sessionVars, toolVars>>

NextAlerts ==
  \/ \E text \in AlertTexts : LiveText(text)
  \/ \E text \in WsTexts : WsMessage(text)
  \/ \E d \in TickSteps : Tick(d)
  \/ ReplayTimerFire

\* Whole messages on both paths, with the clock.
SpecAlerts == Init /\ [][NextAlerts]_vars

MaxCritical == 2

NextRing ==
  \/ \E size \in SegmentSizes : SegmentReady(size)
  \/ msgs < MaxCritical /\ LiveText(ObjCritical)
  \/ \E d \in TickSteps : Tick(d)
  \/ ReplayTimerFire

\* The phantom recorder's ring buffer and the replay that reads it.
SpecRing == Init /\ [][NextRing]_vars

MaxReplaySegments == 2
CriticalTexts == {ObjCritical, ObjStroke}

NextReplay ==
  \/ \E size \in SegmentSizes : segSeq < MaxReplaySegments /\ SegmentReady(size)
  \/ \E text \in CriticalTexts : LiveText(text)
  \/ \E d \in TickSteps : Tick(d)
  \/ ReplayTimerFire

\* CRITICAL alerts, the debounce and the grace-delay timers, with few segments.
SpecReplay == Init /\ [][NextReplay]_vars

\* {"status":"CRITICAL","confidence":2.5}
ObjOverConfident ==
  Toks(Obj(KV("status", Q("CRITICAL")) \o <<",">> \o KV("confidence", <<"2.5">>)))
ConfidenceTexts == {ObjStroke, ObjCritical, ObjOverConfident, ObjFalsy}

NextConfidence ==
  \/ \E text \in ConfidenceTexts : LiveText(text)
  \/ \E d \in TickSteps : Tick(d)
  \/ ReplayTimerFire

\* The live session when the remote endpoint reports any confidence it likes.
SpecConfidence == Init /\ [][NextConfidence]_vars

\* {"status":"WARNING","diagnosis":"Stroke"}
ObjDiagnosed ==
  Toks(Obj(KV("status", Q("WARNING")) \o <<",">> \o KV("diagnosis", Q("Stroke"))))
\* One message that holds four objects, no two neighbours with the same diagnosis.
Burst == ObjCritical \o ObjDiagnosed \o ObjCritical \o ObjDiagnosed
\* One message that holds the same object twice.
Twice == ObjDiagnosed \o ObjDiagnosed
HistoryTexts == {Burst, Twice, ObjNormalStamped}

NextHistory ==
  \/ \E text \in HistoryTexts : LiveText(text)
  \/ \E d \in TickSteps : Tick(d)
  \/ ReplayTimerFire

\* Messages that hold several alerts each, enough to fill the incident history.
SpecHistory == Init /\ [][NextHistory]_vars

\* The texts of SpecStatus: one alert of each status.
StatusTexts == {ObjStroke, ObjNormalStamped, ObjFalsy}

NextStatus ==
  \/ segSeq < MaxReplaySegments /\ SegmentReady(1)
  \/ \E text \in StatusTexts : LiveText(text)
  \/ WsMessage(ObjNormalStamped)
  \/ \E d \in TickSteps : Tick(d)
  \/ ReplayTimerFire

\* Alerts of every status on both paths, with the recorder and the replay.
SpecStatus == Init /\ [][NextStatus]_vars

\* {"status":"CRITICAL","diagnosis":"Stroke","symptoms":"droop"}
ObjSymptomsText ==
  Toks(Obj(KV("status", Q("CRITICAL")) \o <<",">> \o KV("diagnosis", Q("Stroke"))
           \o <<",">> \o KV("symptoms", Q("droop"))))

\* The CRITICAL alerts of the live session and of the fallback socket under
\* SpecSnapshot.
SnapshotTexts == {ObjStroke, ObjSymptomsText}
SnapshotWsTexts == {ObjCritical}

NextSnapshot ==
  \/ \E size \in SegmentSizes : segSeq < MaxReplaySegments /\ SegmentReady(size)
  \/ \E text \in SnapshotTexts : LiveText(text)
  \/ \E text \in SnapshotWsTexts : WsMessage(text)
  \/ \E d \in TickSteps : Tick(d)
  \/ ReplayTimerFire

\* The replay snapshot for CRITICAL alerts of either path, whatever their
\* symptoms field holds.
SpecSnapshot == Init /\ [][NextSnapshot]_vars

(***************************************************************************)
(* The session: connection attempts, transports, reconnect timers and the  *)
(* media uplink.  A client or socket is named by its index in `clients` or *)
(* `sockets`; every callback closes over the index it was created with.    *)
(***************************************************************************)

ReconnectMs == 3000
Modes == {"LIVE_CLIENT", "WEBSOCKET_SERVER"}

\* The refs and state that the session handlers read and write; `cause` and
\* `byStop` note whose event is being handled, for the record of the timers.
SessionState(cause, byStop) ==
  [isConnected |-> isConnected, isIntentionalStop |-> isIntentionalStop,
   clients |-> clients, liveClientRef |-> liveClientRef,
   sockets |-> sockets, wsRef |-> wsRef,
   timers |-> timers, reconnectTimeoutRef |-> reconnectTimeoutRef,
   timerSeq |-> timerSeq, cause |-> cause, byStop |-> byStop]

SetSession(s) ==
  /\ isConnected' = s.isConnected
  /\ isIntentionalStop' = s.isIntentionalStop
  /\ clients' = s.clients
  /\ liveClientRef' = s.liveClientRef
  /\ sockets' = s.sockets
  /\ wsRef' = s.wsRef
  /\ timers' = s.timers
  /\ reconnectTimeoutRef' = s.reconnectTimeoutRef
  /\ timerSeq' = s.timerSeq

\* A timer of scheduleReconnect, set at time t.
NewTimer(s, currentMode, t) ==
  [id |-> s.timerSeq + 1, at |-> t + ReconnectMs, mode |-> currentMode,
   cause |-> s.cause, byStop |-> s.byStop]

\* scheduleReconnect without the clearTimeout.
scheduleReconnectNoClear(s, currentMode, t) ==
  [s EXCEPT !.timers = @ \cup {NewTimer(s, currentMode, t)},
            !.reconnectTimeoutRef = s.timerSeq + 1,
            !.timerSeq = @ + 1]

\* scheduleReconnect: clearTimeout of the timer in the ref, then setTimeout.
scheduleReconnect(s, currentMode, t) ==
  LET cleared == IF s.reconnectTimeoutRef # 0
                 THEN {x \in s.timers : x.id # s.reconnectTimeoutRef}
                 ELSE s.timers
  IN [s EXCEPT !.timers = cleared \cup {NewTimer(s, currentMode, t)},
               !.reconnectTimeoutRef = s.timerSeq + 1,
               !.timerSeq = @ + 1]

\* A connection-change callback that never retries.
onConnectionChangeNoRetry(s, connected, t) ==
  [s EXCEPT !.isConnected = connected]

\* The connection-change callback that startLiveClient gives to the client.
onConnectionChange(s, connected, t) ==
  LET s1 == [s EXCEPT !.isConnected = connected] IN
  IF ~connected /\ ~s.isIntentionalStop
  THEN scheduleReconnect(s1, "LIVE_CLIENT", t)
  ELSE s1

\* LazarusLiveClient.disconnect of client c
disconnect(s, c, t) ==
  LET s1 == [s EXCEPT !.clients[c].processor = FALSE,
                      !.clients[c].session = FALSE,
                      !.clients[c].textBuffer = <<>>,
                      !.clients[c].stopped = TRUE,
                      !.cause = c, !.byStop = TRUE]
  IN [onConnectionChange(s1, FALSE, t) EXCEPT !.cause = s.cause, !.byStop = s.byStop]

\* new LazarusLiveClient(...) whose connect() has been called
NewClient ==
  [session |-> FALSE, transport |-> "connecting", errored |-> FALSE,
   processor |-> FALSE, stopped |-> FALSE, textBuffer |-> <<>>]

\* startLiveClient whose new client takes over the text of the previous one.
startLiveClientKeepBuffer(s, t) ==
  LET s1 == IF s.liveClientRef # 0 THEN disconnect(s, s.liveClientRef, t) ELSE s
      kept == IF s.liveClientRef # 0 THEN s.clients[s.liveClientRef].textBuffer ELSE <<>>
  IN [s1 EXCEPT !.clients = Append(@, [NewClient EXCEPT !.textBuffer = kept])]

\* startLiveClient up to `await client.connect()`
startLiveClient(s, t) ==
  LET s1 == IF s.liveClientRef # 0 THEN disconnect(s, s.liveClientRef, t) ELSE s
  IN [s1 EXCEPT !.clients = Append(@, NewClient)]

\* new WebSocket(wsUrl) with its MediaRecorder started
NewSocket == [readyState |-> "CONNECTING", errored |-> FALSE, recorder |-> TRUE, inflight |-> FALSE]

\* startWebSocketServer
startWebSocketServer(s, t) ==
  LET w == s.wsRef
      s1 == IF w # 0
            THEN [s EXCEPT !.sockets[w].readyState =
                              IF @ \in {"CONNECTING", "OPEN"} THEN "CLOSING" ELSE @,
                           !.sockets[w].recorder = FALSE]
            ELSE s
  IN [s1 EXCEPT !.sockets = Append(@, NewSocket), !.wsRef = Len(s.sockets) + 1]

Attempts == Len(clients) + Len(sockets)
MaxAttempts == 3
MaxFaults == 2

\* startSequence, for the mode chosen on the start screen
StartSequence(m) ==
  /\ ~started
  /\ started' = TRUE
  /\ mode' = m
  /\ LET s == [SessionState(0, FALSE) EXCEPT !.isIntentionalStop = FALSE] IN
     SetSession(IF m = "LIVE_CLIENT" THEN startLiveClient(s, now)
                ELSE startWebSocketServer(s, now))
  /\ UNCHANGED <<pipelineVars, now, faults, media, pcm, lastFire>>

\* client.connect() resolves (the transport opened), then startAudioStream
\* either attaches the audio pipeline or throws.
ConnectSucceed(c, audioOk) ==
  /\ c \in DOMAIN clients
  /\ clients[c].transport = "connecting"
  /\ audioOk \/ faults < MaxFaults
  /\ LET s0 == [SessionState(c, FALSE) EXCEPT !.clients[c].transport = "open",
                                              !.clients[c].session = TRUE]
         s1 == onConnectionChange(s0, TRUE, now)
     IN SetSession(IF audioOk
                   THEN [s1 EXCEPT !.clients[c].processor = TRUE, !.liveClientRef = c]
                   ELSE scheduleReconnect([s1 EXCEPT !.isConnected = FALSE], "LIVE_CLIENT", now))
  /\ faults' = IF audioOk THEN faults ELSE faults + 1
  /\ UNCHANGED <<pipelineVars, now, mode, started, media, pcm, lastFire>>

\* client.connect() rejects: connect's catch reports the change and rethrows,
\* startLiveClient's catch schedules again.
ConnectFail(c) ==
  /\ c \in DOMAIN clients
  /\ clients[c].transport = "connecting"
  /\ faults < MaxFaults
  /\ faults' = faults + 1
  /\ LET s0 == [SessionState(c, FALSE) EXCEPT !.clients[c].transport = "failed"]
         s1 == onConnectionChange(s0, FALSE, now)
     IN SetSession(scheduleReconnect([s1 EXCEPT !.isConnected = FALSE], "LIVE_CLIENT", now))
  /\ UNCHANGED <<pipelineVars, now, mode, started, media, pcm, lastFire>>

\* callbacks.onclose of client c
TransportClose(c) ==
  /\ c \in DOMAIN clients
  /\ clients[c].transport = "open"
  /\ faults < MaxFaults
  /\ faults' = faults + 1
  /\ SetSession(onConnectionChange(
       [SessionState(c, FALSE) EXCEPT !.clients[c].transport = "closed"], FALSE, now))
  /\ UNCHANGED <<pipelineVars, now, mode, started, media, pcm, lastFire>>

\* callbacks.onerror of client c
TransportError(c) ==
  /\ c \in DOMAIN clients
  /\ clients[c].transport = "open"
  /\ ~clients[c].errored
  /\ faults < MaxFaults
  /\ faults' = faults + 1
  /\ SetSession(onConnectionChange(
       [SessionState(c, FALSE) EXCEPT !.clients[c].errored = TRUE], FALSE, now))
  /\ UNCHANGED <<pipelineVars, now, mode, started, media, pcm, lastFire>>

\* The transport of client c is open and has reported neither close nor error.
Healthy(c) == clients[c].transport = "open" /\ ~clients[c].errored

\* processor.onaudioprocess of client c, for the block inputData
AudioProcess(c, inputData) ==
  /\ c \in DOMAIN clients
  /\ clients[c].processor
  /\ pcm' = [input |-> inputData, output |-> floatTo16BitPCM(inputData)]
  /\ media' = [kind |-> "audio", target |-> c, checked |-> clients[c].session,
               valid |-> Healthy(c), sent |-> clients[c].session,
               openAtSend |-> Healthy(c)]
  /\ UNCHANGED <<pipelineVars, now, mode, started, isConnected, isIntentionalStop,
                 clients, liveClientRef, sockets, wsRef, timers,
                 reconnectTimeoutRef, timerSeq, faults, lastFire>>

\* The video interval without its look at isConnected.
VideoTickUnconditional ==
  /\ started
  /\ media' =
       IF mode = "LIVE_CLIENT"
       THEN LET c == liveClientRef
                ok == c # 0 /\ clients[c].session
            IN [kind |-> "video", target |-> c, checked |-> ok,
                valid |-> c # 0 /\ Healthy(c), sent |-> ok,
                openAtSend |-> c # 0 /\ Healthy(c)]
       ELSE LET w == wsRef
                ok == w # 0 /\ sockets[w].readyState = "OPEN"
            IN [kind |-> "video", target |-> w, checked |-> ok, valid |-> ok,
                sent |-> ok, openAtSend |-> ok]
  /\ UNCHANGED <<pipelineVars, now, mode, started, isConnected, isIntentionalStop,
                 clients, liveClientRef, sockets, wsRef, timers,
                 reconnectTimeoutRef, timerSeq, faults, pcm, lastFire>>

\* The video interval: captureAndSendFrameLive or captureAndSendFrameWS
VideoTick ==
  /\ started
  /\ media' =
       IF ~isConnected
       THEN [kind |-> "video", target |-> 0, checked |-> FALSE, valid |-> FALSE,
             sent |-> FALSE, openAtSend |-> FALSE]
       ELSE IF mode = "LIVE_CLIENT"
       THEN LET c == liveClientRef
                ok == c # 0 /\ clients[c].session
            IN [kind |-> "video", target |-> c, checked |-> ok,
                valid |-> c # 0 /\ Healthy(c), sent |-> ok,
                openAtSend |-> c # 0 /\ Healthy(c)]
       ELSE LET w == wsRef
                ok == w # 0 /\ sockets[w].readyState = "OPEN"
            IN [kind |-> "video", target |-> w, checked |-> ok, valid |-> ok,
                sent |-> ok, openAtSend |-> ok]
  /\ UNCHANGED <<pipelineVars, now, mode, started, isConnected, isIntentionalStop,
                 clients, liveClientRef, sockets, wsRef, timers,
                 reconnectTimeoutRef, timerSeq, faults, pcm, lastFire>>

\* The callback that scheduleReconnect handed to setTimeout, when it is due.
ReconnectTimerFire(id) ==
  /\ Attempts < MaxAttempts
  /\ \E tm \in timers :
       /\ tm.id = id
       /\ tm.at <= now
       /\ LET s == [SessionState(0, FALSE) EXCEPT !.timers = @ \ {tm}] IN
          IF tm.mode = "LIVE_CLIENT"
          THEN /\ SetSession(startLiveClient(s, now))
               /\ lastFire' = [timer |-> id, cause |-> tm.cause, current |-> liveClientRef,
                               healthy |-> liveClientRef # 0 /\ Healthy(liveClientRef)
                                             /\ clients[liveClientRef].session]
          ELSE /\ SetSession(startWebSocketServer(s, now))
               /\ lastFire' = [timer |-> id, cause |-> tm.cause, current |-> wsRef,
                               healthy |-> wsRef # 0 /\ sockets[wsRef].readyState = "OPEN"]
  /\ UNCHANGED <<pipelineVars, now, mode, started, faults, media, pcm>>

\* ws.onopen of socket w
WsOpen(w) ==
  /\ w \in DOMAIN sockets
  /\ sockets[w].readyState = "CONNECTING"
  /\ SetSession([SessionState(w, FALSE) EXCEPT !.sockets[w].readyState = "OPEN",
                                              !.isConnected = TRUE])
  /\ UNCHANGED <<pipelineVars, now, mode, started, faults, media, pcm, lastFire>>

\* ws.onerror of socket w: only the error text is set
WsError(w) ==
  /\ w \in DOMAIN sockets
  /\ sockets[w].readyState \in {"CONNECTING", "OPEN"}
  /\ ~sockets[w].errored
  /\ faults < MaxFaults
  /\ faults' = faults + 1
  /\ SetSession([SessionState(w, FALSE) EXCEPT !.sockets[w].errored = TRUE])
  /\ UNCHANGED <<pipelineVars, now, mode, started, media, pcm, lastFire>>

\* ws.onclose of socket w, after close() was called on it or on a failure
WsClose(w) ==
  /\ w \in DOMAIN sockets
  /\ sockets[w].readyState \in {"CONNECTING", "OPEN", "CLOSING"}
  /\ sockets[w].readyState = "CLOSING" \/ sockets[w].errored \/ faults < MaxFaults
  /\ faults' = IF sockets[w].readyState = "CLOSING" \/ sockets[w].errored
               THEN faults ELSE faults + 1
  /\ LET s == [SessionState(w, sockets[w].readyState = "CLOSING")
                 EXCEPT !.sockets[w].readyState = "CLOSED", !.isConnected = FALSE]
     IN SetSession(IF ~s.isIntentionalStop
                   THEN scheduleReconnect(s, "WEBSOCKET_SERVER", now)
                   ELSE s)
  /\ UNCHANGED <<pipelineVars, now, mode, started, media, pcm, lastFire>>

\* mediaRecorder.ondataavailable of socket w up to its await, for a chunk
\* that is not empty
WsAudioData(w) ==
  /\ w \in DOMAIN sockets
  /\ sockets[w].recorder
  /\ ~sockets[w].inflight
  /\ LET ok == sockets[w].readyState = "OPEN" IN
     /\ sockets' = [sockets EXCEPT ![w].inflight = ok]
     /\ media' = [kind |-> "wsaudio", target |-> w, checked |-> ok, valid |-> ok,
                  sent |-> FALSE, openAtSend |-> FALSE]
  /\ UNCHANGED <<pipelineVars, now, mode, started, isConnected, isIntentionalStop,
                 clients, liveClientRef, wsRef, timers, reconnectTimeoutRef,
                 timerSeq, faults, pcm, lastFire>>

\* ... and after the await: ws.send(buffer)
WsAudioSend(w) ==
  /\ w \in DOMAIN sockets
  /\ sockets[w].inflight
  /\ sockets' = [sockets EXCEPT ![w].inflight = FALSE]
  /\ media' = [kind |-> "wsaudio", target |-> w, checked |-> TRUE, valid |-> TRUE,
               sent |-> TRUE, openAtSend |-> sockets[w].readyState = "OPEN"]
  /\ UNCHANGED <<pipelineVars, now, mode, started, isConnected, isIntentionalStop,
                 clients, liveClientRef, wsRef, timers, reconnectTimeoutRef,
                 timerSeq, faults, pcm, lastFire>>

MaxSessionElapsed == 9000

\* The moment the earliest pending reconnect timer is due.
NextDue == CHOOSE t \in {x.at : x \in timers} : \A x \in timers : t <= x.at

\* Time passes, up to the moment the next reconnect timer is due.
SessionTick ==
  /\ started
  /\ now' = IF timers # {} /\ NextDue < now + ReconnectMs THEN NextDue ELSE now + ReconnectMs
  /\ now' > now
  /\ now' <= Epoch + MaxSessionElapsed
  /\ UNCHANGED <<pipelineVars, sessionVars>>

MaxSessionMessages == 2

\* {"status":"CRITICAL"  and  }  : an object in two parts
PartOpen == Toks(<<"{">> \o KV("status", Q("CRITICAL")))
PartClose == Toks(<<"}">>)
SessionTexts == {ObjCritical, PartOpen, PartClose}

\* callbacks.onmessage of client c: handleMessage with a text, on the
\* client's own textBuffer, with every onAlert call it makes.
SessionMessage(c, text) ==
  /\ c \in DOMAIN clients
  /\ Healthy(c)
  /\ Len(received) < MaxSessionMessages
  /\ LET r == tryParseBuffer(clients[c].textBuffer \o text, 0, 0, now) IN
     /\ clients' = [clients EXCEPT ![c].textBuffer = r.buffer]
     /\ SetApp(handleAll(AppState("live"), AlertsOf(r.out), now))
     /\ received' = Append(received,
          [client |-> c, text |-> text, current |-> liveClientRef,
           newest |-> Len(clients), stopped |-> clients[c].stopped, before |-> clients[c].textBuffer,
           alerts |-> Len(AlertsOf(r.out))])
  /\ UNCHANGED <<clientVars, msgs, ringVars, replayVars, invoked, now, mode, started,
                 isConnected, isIntentionalStop, liveClientRef, sockets, wsRef,
                 timers, reconnectTimeoutRef, timerSeq, faults, media, pcm, lastFire>>

NextSession ==
  \/ \E m \in Modes : StartSequence(m)
  \/ \E c \in 1..MaxAttempts : \E audioOk \in BOOLEAN : ConnectSucceed(c, audioOk)
  \/ \E c \in 1..MaxAttempts : ConnectFail(c)
  \/ \E c \in 1..MaxAttempts : TransportClose(c)
  \/ \E c \in 1..MaxAttempts : TransportError(c)
  \/ \E c \in 1..MaxAttempts : \E inputData \in SessionBlocks : AudioProcess(c, inputData)
  \/ VideoTick
  \/ \E id \in 1..timerSeq : ReconnectTimerFire(id)
  \/ \E w \in 1..MaxAttempts : WsOpen(w)
  \/ \E w \in 1..MaxAttempts : WsError(w)
  \/ \E w \in 1..MaxAttempts : WsClose(w)
  \/ \E w \in 1..MaxAttempts : WsAudioData(w)
  \/ \E w \in 1..MaxAttempts : WsAudioSend(w)
  \/ SessionTick

\* The session manager and the media uplink, in either mode.
SpecSession == Init /\ [][NextSession]_vars

NextClients ==
  \/ \E m \in Modes : StartSequence(m)
  \/ \E c \in 1..MaxAttempts : \E audioOk \in BOOLEAN : ConnectSucceed(c, audioOk)
  \/ \E c \in 1..MaxAttempts : ConnectFail(c)
  \/ \E c \in 1..MaxAttempts : TransportClose(c)
  \/ \E c \in 1..MaxAttempts : TransportError(c)
  \/ \E id \in 1..timerSeq : ReconnectTimerFire(id)
  \/ \E w \in 1..MaxAttempts : WsOpen(w)
  \/ \E w \in 1..MaxAttempts : WsError(w)
  \/ \E w \in 1..MaxAttempts : WsClose(w)
  \/ SessionTick
  \/ \E c \in 1..MaxAttempts : \E text \in SessionTexts : SessionMessage(c, text)

\* The session manager with the text messages its clients' sessions deliver.
SpecClients == Init /\ [][NextClients]_vars

\* The event loop runs every timer that is due, and time passes.
SpecSessionFair ==
  /\ SpecSession
  /\ WF_vars(\E id \in 1..timerSeq : ReconnectTimerFire(id))
  /\ WF_vars(SessionTick)
  /\ WF_vars(\E w \in DOMAIN sockets : sockets[w].errored /\ WsClose(w))

\* One audio block converted by a client, whatever the state of its session.
Convert(inputData) ==
  /\ pcm' = [input |-> inputData, output |-> floatTo16BitPCM(inputData)]
  /\ UNCHANGED <<pipelineVars, now, mode, started, isConnected, isIntentionalStop,
                 clients, liveClientRef, sockets, wsRef, timers,
                 reconnectTimeoutRef, timerSeq, faults, media, lastFire>>

NextPcm == \E inputData \in Blocks : Convert(inputData)

\* The PCM conversion of every block of the audio source.
SpecPcm == Init /\ [][NextPcm]_vars

(***************************************************************************)
(* The objects of a text, by the grammar: an object is an opening brace,   *)
(* then strings, nested objects and other characters, then a closing       *)
(* brace; a string runs from a quote to the next quote that no backslash   *)
(* escapes.                                                                *)
(***************************************************************************)

RECURSIVE RefStrEnd(_, _)
\* The closing quote of the string whose first character is at j, 0 for none.
RefStrEnd(s, j) ==
  IF j > Len(s) THEN 0
  ELSE IF s[j] = "\\" THEN RefStrEnd(s, j + 2)
  ELSE IF s[j] = "\"" THEN j
  ELSE RefStrEnd(s, j + 1)

RECURSIVE RefObjEnd(_, _)
\* The closing brace of the object whose first member is at j, 0 for none.
RefObjEnd(s, j) ==
  IF j > Len(s) THEN 0
  ELSE IF s[j] = "}" THEN j
  ELSE IF s[j] = "{" THEN
         LET e == RefObjEnd(s, j + 1) IN IF e = 0 THEN 0 ELSE RefObjEnd(s, e + 1)
  ELSE IF s[j] = "\"" THEN
         LET e == RefStrEnd(s, j + 1) IN IF e = 0 THEN 0 ELSE RefObjEnd(s, e + 1)
  ELSE RefObjEnd(s, j + 1)

RECURSIVE FirstBrace(_, _)
FirstBrace(s, i) ==
  IF i > Len(s) THEN 0 ELSE IF s[i] = "{" THEN i ELSE FirstBrace(s, i + 1)

RECURSIVE RefObjectsFrom(_, _, _)
RefObjectsFrom(s, i, acc) ==
  LET b == FirstBrace(s, i) IN
  IF b = 0 THEN acc
  ELSE LET e == RefObjEnd(s, b + 1) IN
       IF e = 0 THEN acc ELSE RefObjectsFrom(s, e + 1, Append(acc, <<b, e>>))

\* The complete top-level objects of a text, in order, as <<first, last>>.
RefObjects(s) == RefObjectsFrom(s, 1, <<>>)

RECURSIVE StringBracesIn(_, _, _, _)
\* The positions of the braces inside the strings of the object s[i-1..last].
StringBracesIn(s, i, last, acc) ==
  IF i > last THEN acc
  ELSE IF s[i] = "\"" THEN
         LET e == RefStrEnd(s, i + 1) IN
         StringBracesIn(s, e + 1, last,
           acc \cup {p \in (i + 1)..e : s[p] \in {"{", "}"}})
  ELSE StringBracesIn(s, i + 1, last, acc)

\* The positions of the braces that lie inside a string of a complete
\* top-level object of the text.
RefStringBraces(s) ==
  UNION {StringBracesIn(s, o[1] + 1, o[2], {}) : o \in {RefObjects(s)[i] : i \in DOMAIN RefObjects(s)}}

Bounds(h) == [i \in 1..Len(h) |-> <<h[i].from, h[i].to>>]
Range(f) == {f[i] : i \in DOMAIN f}

(***************************************************************************)
(* Claims                                                                  *)
(***************************************************************************)

\* C1 (as amended): while the overflow cut has never fired, the spans handed
\* to the parse step are exactly the complete top-level objects of the text
\* delivered so far, each once, in order and character for character,
\* whatever the fragments were.
C1_ExactlyOnceWithoutOverflow ==
  truncations = <<>> =>
    /\ Bounds(handed) = RefObjects(Cs(stream))
    /\ \A i \in DOMAIN handed :
         handed[i].span = SubSeq(Cs(stream), handed[i].from, handed[i].to)

\* C1 witness: two objects were handed, the first of them delivered across
\* two calls, and no overflow cut has fired.
C1_Witness ==
  /\ truncations = <<>>
  /\ Len(handed) >= 2
  /\ handed[1].carried

\* C1 (original): every well-formed top-level object of the delivered text has
\* been handed to the parse step exactly once.
C1_Original ==
  \A o \in Range(RefObjects(Cs(stream))) :
    JSONparse(SubSeq(Cs(stream), o[1], o[2])).ok =>
      Cardinality({i \in DOMAIN handed : <<handed[i].from, handed[i].to>> = o}) = 1

\* C2: spans are handed, and their alerts emitted, in the order in which the
\* objects end in the inbound text; the alerts reach the application in that
\* order (ids count the calls of handleNewAlert).
C2_EmissionOrder ==
  /\ \A i, j \in DOMAIN handed : i < j => handed[i].to < handed[j].to
  /\ Len(delivered) = Len(AlertsOf(handed))
  /\ \A k \in DOMAIN delivered :
       /\ delivered[k].alert.id = k
       /\ [delivered[k].alert EXCEPT !.id = 0] = AlertsOf(handed)[k]

\* C2 witness: two alerts, the first from an object delivered across calls and
\* the second from an object that a still later call completed.
C2_Witness ==
  \E i, j \in DOMAIN handed :
    /\ i < j
    /\ handed[i].carried /\ handed[j].carried
    /\ handed[i].alerts # <<>> /\ handed[j].alerts # <<>>

\* C3: every span handed to the parse step is a complete top-level object of
\* the inbound text, never a part of an object whose opening brace was cut off.
C3_NeverTruncatedObject ==
  \A i \in DOMAIN handed :
    <<handed[i].from, handed[i].to>> \in Range(RefObjects(Cs(stream)))

\* C4: a brace inside a string of an object never opens or closes a span: the
\* boundaries of every handed span are braces outside strings.
C4_StringBracesInert ==
  \A i \in DOMAIN handed :
    /\ handed[i].from \notin RefStringBraces(Cs(stream))
    /\ handed[i].to \notin RefStringBraces(Cs(stream))

\* C5: every overflow cut leaves exactly the last 2,000 characters, and no span
\* handed from then on starts before the retained window: an object whose
\* opening brace the cut removed is never emitted.
C5_OverflowCut ==
  \A k \in DOMAIN truncations :
    /\ truncations[k].kept = KeepTail
    /\ \A i \in DOMAIN handed :
         i > truncations[k].before => handed[i].from > truncations[k].window

\* C5 witness: an overflow cut removed an opening brace, and a span has been
\* handed since.
C5_Witness ==
  \E k \in DOMAIN truncations :
    /\ \E p \in 1..truncations[k].window : stream[p].c = "{"
    /\ Len(handed) > truncations[k].before

\* C6: a message without text emits no alert and leaves the buffer unchanged.
C6_EmptyInputIdempotent ==
  lastCall.empty => textBuffer = lastCall.before /\ Len(delivered) = lastCall.alerts

\* C6 witness: a message without text arrived after an alert had been emitted
\* and while part of a later object was buffered.
C6_Witness ==
  /\ lastCall.empty
  /\ delivered # <<>>
  /\ textBuffer # <<>>

\* C7: every alert handed to handleNewAlert, from the live text or from the
\* fallback socket, has a status that is one of NORMAL, WARNING, CRITICAL.
C7_StatusAlwaysEnumerated ==
  \A k \in DOMAIN delivered : delivered[k].alert.status \in DiagnosisStatus

\* The alert of a handed span, and the object the span parses to.
Emitted(h) == h.alerts[1]
ParsedOf(h) == JSONparse(cleanJson(h.span))
ValidStatus(h) == h.alerts # <<>> /\ Emitted(h).status \in DiagnosisStatus

\* C8 (as amended): when a candidate with a valid status is normalized, a
\* diagnosis, confidence or symptoms field that is missing or falsy (empty
\* string, 0, null, false) becomes "Unknown Diagnosis", 0 and the empty
\* sequence respectively, and a field that is present with a truthy value is
\* passed through unchanged.
C8_DefaultsForMissingOrFalsy ==
  \A i \in DOMAIN handed :
    ValidStatus(handed[i]) =>
      LET a == Emitted(handed[i])
          p == ParsedOf(handed[i])
          Field(key, got, default) ==
            /\ Get(p, key) = Undefined => got = default
            /\ Get(p, key).k \in {"null", "false"} => got = default
            /\ Get(p, key) \in {StrVal(<<>>), NumVal("0")} => got = default
            /\ (Get(p, key).k \in {"string", "number"}
                  /\ Get(p, key) \notin {StrVal(<<>>), NumVal("0")}) => got = Get(p, key)
            /\ Get(p, key).k \in {"array", "object", "true"} => got = Get(p, key)
      IN /\ Field("diagnosis", a.diagnosis, StrVal(<<"Unknown Diagnosis">>))
         /\ Field("confidence", a.confidence, NumVal("0"))
         /\ Field("symptoms", a.symptoms, EmptyArray)

\* C8 witness: one alert came from an object with only a status, another from
\* an object with all three fields present and truthy, a third from an object
\* whose three fields are present and falsy.
C8_Witness ==
  \E i, j, k \in DOMAIN handed :
    /\ ValidStatus(handed[i]) /\ ValidStatus(handed[j]) /\ ValidStatus(handed[k])
    /\ \A key \in {"diagnosis", "confidence", "symptoms"} :
         /\ Get(ParsedOf(handed[i]), key) = Undefined
         /\ Truthy(Get(ParsedOf(handed[j]), key))
         /\ Get(ParsedOf(handed[k]), key) # Undefined
         /\ ~Truthy(Get(ParsedOf(handed[k]), key))

\* C8 (original): a missing field gets its default and a field that is present
\* is passed through unchanged.
C8_Original ==
  \A i \in DOMAIN handed :
    ValidStatus(handed[i]) =>
      LET a == Emitted(handed[i])
          p == ParsedOf(handed[i])
      IN /\ a.diagnosis = OrElseMissing(Get(p, "diagnosis"), StrVal(<<"Unknown Diagnosis">>))
         /\ a.confidence = OrElseMissing(Get(p, "confidence"), NumVal("0"))
         /\ a.symptoms = OrElseMissing(Get(p, "symptoms"), EmptyArray)

\* C9: every alert handed to handleNewAlert carries the local time of that
\* moment as its timestamp, whatever timestamp the remote side supplied, so
\* timestamps never decrease in arrival order.
C9_LocalTimestamps ==
  /\ \A k \in DOMAIN delivered : delivered[k].alert.timestamp = delivered[k].at
  /\ \A j, k \in DOMAIN delivered :
       j < k => delivered[j].alert.timestamp <= delivered[k].alert.timestamp

\* C10: the ring never holds more than five segments, and it holds exactly the
\* most recent min(n, 5) of the n accepted segments, in the order of arrival.
C10_RingHoldsLastFive ==
  /\ Len(replayChunks) <= RingCap
  /\ LET n == Len(accepted)
         m == IF n < RingCap THEN n ELSE RingCap
     IN replayChunks = SubSeq(accepted, n - m + 1, n)

\* C10 witness: more than five segments were accepted, an empty one was
\* refused in between, and the ring has evicted the oldest.
C10_Witness ==
  /\ Len(accepted) > RingCap
  /\ segSeq > Len(accepted)
  /\ replayChunks[1].seq > accepted[1].seq

\* The CRITICAL alerts among the delivered ones, and what became of their triggers.
Criticals == {k \in DOMAIN delivered : delivered[k].alert.status = CRITICAL}
IdOf(k) == delivered[k].alert.id
ArtifactsOf(ids) == {i \in DOMAIN artifacts : artifacts[i].alert \in ids}
Pending(id) == \E i \in DOMAIN replayTimers : replayTimers[i].alert.id = id
Fired(id) == \E i \in DOMAIN fires : fires[i].alert = id
FiredWithEvidence(id) == \E i \in DOMAIN fires : fires[i].alert = id /\ fires[i].ring > 0
Triggered(id) == Pending(id) \/ Fired(id)
CloseCriticals ==
  {p \in Criticals \X Criticals :
     p[1] < p[2] /\ delivered[p[2]].at - delivered[p[1]].at < DebounceMs}
\* No trigger accepted in the ten seconds before the alert arrived.
Unsuppressed(k) ==
  \A j \in Criticals :
    (j < k /\ Triggered(IdOf(j))) => delivered[k].at - delivered[j].at >= DebounceMs

\* C11 (as amended): two CRITICAL alerts less than 10 seconds apart yield at
\* most one artifact, and exactly one when the first of them started a grace
\* delay and the ring buffer held a segment when that delay elapsed; any two
\* artifacts come from triggers at least 10 seconds apart.
C11_OneArtifactPerWindow ==
  /\ \A p \in CloseCriticals :
       LET n == Cardinality(ArtifactsOf({IdOf(p[1]), IdOf(p[2])})) IN
       /\ n <= 1
       /\ FiredWithEvidence(IdOf(p[1])) => n = 1
  /\ \A a, b \in DOMAIN artifacts :
       a < b => artifacts[b].set - artifacts[a].set >= DebounceMs

\* C11 witness: two CRITICAL alerts less than 10 seconds apart, the grace
\* delay of the first elapsed with a segment in the ring, no timer pending.
C11_Witness ==
  /\ replayTimers = <<>>
  /\ \E p \in CloseCriticals : FiredWithEvidence(IdOf(p[1]))

\* C11 (original): once no grace delay is pending, two CRITICAL alerts less
\* than 10 seconds apart have yielded exactly one artifact.
C11_Original ==
  replayTimers = <<>> =>
    \A p \in CloseCriticals :
      Cardinality(ArtifactsOf({IdOf(p[1]), IdOf(p[2])})) = 1

\* C12 (as amended): a CRITICAL alert that arrives at least 10 seconds after
\* the previous accepted trigger starts a grace delay of its own, and when that
\* delay elapses with a segment in the ring buffer an artifact holding the
\* ring's contents is handed over.
C12_LateTriggerYieldsArtifact ==
  \A k \in Criticals :
    Unsuppressed(k) =>
      /\ Triggered(IdOf(k))
      /\ \A i \in DOMAIN replayTimers :
           replayTimers[i].alert.id = IdOf(k) => replayTimers[i].at = delivered[k].at + GraceMs
      /\ FiredWithEvidence(IdOf(k)) =>
           \E i \in ArtifactsOf({IdOf(k)}) : artifacts[i].blob # <<>>

\* C12 witness: two artifacts whose triggers lie 11 seconds apart.
C12_Witness ==
  \E a, b \in DOMAIN artifacts : artifacts[b].set - artifacts[a].set = 11000

\* C12 (original): once no grace delay is pending, every CRITICAL alert that
\* arrived at least 10 seconds after the previous accepted trigger has yielded
\* an artifact.
C12_Original ==
  replayTimers = <<>> =>
    \A k \in Criticals : Unsuppressed(k) => ArtifactsOf({IdOf(k)}) # {}

\* C13: once the application has torn a session down on purpose, the stop
\* flag is set and no reconnect timer is pending on account of that teardown.
C13_NoReconnectAfterStop ==
  /\ \A tm \in timers : ~tm.byStop
  /\ (\E c \in DOMAIN clients : clients[c].stopped) => isIntentionalStop

\* C14: at most one reconnect timer is pending, and it is the one the ref names.
C14_SingleReconnectTimer ==
  /\ Cardinality(timers) <= 1
  /\ \A tm \in timers : tm.id = reconnectTimeoutRef

\* C14 witness: one transport has reported an error and then a close, another
\* connection attempt has failed, and exactly one timer is pending.
C14_Witness ==
  /\ Cardinality(timers) = 1
  /\ timerSeq >= 3
  /\ \/ \E c \in DOMAIN clients : clients[c].errored /\ clients[c].transport = "closed"
     \/ \E c \in DOMAIN clients : clients[c].transport = "failed"

\* A session that works, an attempt under way, or a failure about to be reported.
Working ==
  \/ \E c \in DOMAIN clients : Healthy(c) /\ clients[c].session
  \/ \E w \in DOMAIN sockets : sockets[w].readyState = "OPEN" /\ ~sockets[w].errored
InFlight ==
  \/ \E c \in DOMAIN clients : clients[c].transport = "connecting"
  \/ \E w \in DOMAIN sockets : sockets[w].readyState \in {"CONNECTING", "CLOSING"}
  \/ \E w \in DOMAIN sockets : sockets[w].readyState = "OPEN" /\ sockets[w].errored
NeverStuck == started => (Working \/ InFlight \/ timers # {})
HorizonReached == now + ReconnectMs > Epoch + MaxSessionElapsed

\* A socket has reported an error and its close event is still to come.
ErrorReported ==
  \E w \in DOMAIN sockets : sockets[w].errored /\ sockets[w].readyState # "CLOSED"

\* C15: the stop flag stays false and the session is never left without a
\* working transport, an attempt under way or a pending reconnect timer; every
\* close, error or failed attempt leaves a reconnect pending; and a pending
\* reconnect is always followed by a new connection attempt.
C15_AlwaysReconnects ==
  /\ [](~isIntentionalStop /\ NeverStuck)
  /\ [][faults' > faults => (timers' # {} \/ ErrorReported')]_vars
  /\ \A n \in 0..(MaxAttempts - 1) :
       ((timers # {} \/ ErrorReported) /\ Attempts = n)
         ~> (Attempts > n \/ HorizonReached)

\* C15 witness: after two failures the third connection attempt is under way.
C15_Witness ==
  /\ faults = MaxFaults
  /\ Attempts = MaxAttempts
  /\ InFlight

\* C16: a client whose transport has reported close, error or a failed connect
\* holds no session handle, and no audio block is sent on such a session.
C16_HandleReleasedOnDisconnect ==
  /\ \A c \in DOMAIN clients :
       (clients[c].transport \in {"closed", "failed"} \/ clients[c].errored)
         => ~clients[c].session
  /\ (media.kind = "audio" /\ media.sent) => media.openAtSend

\* C17: a block or frame is sent only if its session was valid (open, with no
\* close or error reported) when it was captured.
C17_InvalidFramesDropped ==
  media.sent => media.valid

\* C19: a reconnect timer that was scheduled on account of a session other
\* than the current one does not tear down a current session that works.
C19_StaleTimerInert ==
  (lastFire.timer # 0 /\ lastFire.cause # lastFire.current) => ~lastFire.healthy

\* C18: every 16-bit output of the PCM conversion lies in [-32768, 32767];
\* a sample >= 1 converts to 32767 and a sample <= -1 converts to -32768.
C18_PcmSaturates ==
  /\ DOMAIN pcm.output = DOMAIN pcm.input
  /\ \A i \in DOMAIN pcm.input :
       /\ pcm.output[i] \in -32768..32767
       /\ (~pcm.input[i].nan /\ pcm.input[i].num >= SampleDen) => pcm.output[i] = 32767
       /\ (~pcm.input[i].nan /\ pcm.input[i].num <= -SampleDen) => pcm.output[i] = -32768

\* C18 witness: a block holding the samples 1.5 and -2.0 has been converted.
C18_Witness ==
  /\ pcm.input = <<Sample(6), Sample(-8)>>
  /\ pcm.output = <<32767, -32768>>

\* The text delivered after the span handed i-th, and the complete top-level
\* objects of that text at their positions in the whole text.
After(i) == SubSeq(Cs(stream), handed[i].to + 1, Len(stream))
Following(i) ==
  [k \in DOMAIN RefObjects(After(i)) |->
     <<RefObjects(After(i))[k][1] + handed[i].to, RefObjects(After(i))[k][2] + handed[i].to>>]
WellFormed(span) ==
  JSONparse(cleanJson(span)).ok /\ Truthy(Get(JSONparse(cleanJson(span)), "status"))
Discarded(i) ==
  /\ handed[i].alerts = <<>>
  /\ Len(stream) - Len(textBuffer) >= handed[i].to
  /\ \A j \in DOMAIN handed \ {i} :
       handed[j].to < handed[i].from \/ handed[j].from > handed[i].to

\* C20 (as amended): a balanced span that fails to parse produces no alert, is
\* removed from the buffer and is never handed again; and while no overflow
\* cut fires after it, the spans handed after it are exactly the complete
\* top-level objects of the text that follows it, each well-formed one emitted.
C20_FailedSpanDiscarded ==
  \A i \in DOMAIN handed :
    ~JSONparse(cleanJson(handed[i].span)).ok =>
      /\ Discarded(i)
      /\ (\A k \in DOMAIN truncations : truncations[k].before < i) =>
           /\ SubSeq(Bounds(handed), i + 1, Len(handed)) = Following(i)
           /\ \A j \in (i + 1)..Len(handed) :
                WellFormed(handed[j].span) <=> handed[j].alerts # <<>>

\* C20 witness: a span failed to parse, the object right after it was emitted
\* and so was an object that a later call completed; no overflow cut fired.
C20_Witness ==
  /\ truncations = <<>>
  /\ \E i, j, k \in DOMAIN handed :
       /\ i < j /\ j < k
       /\ ~JSONparse(cleanJson(handed[i].span)).ok
       /\ handed[j].from = handed[i].to + 1
       /\ handed[j].alerts # <<>>
       /\ handed[k].carried /\ handed[k].alerts # <<>>

\* C20 (original): a balanced span that fails to parse produces no alert, is
\* removed and never handed again, and every well-formed object that follows
\* it in the delivered text is handed and emitted.
C20_Original ==
  \A i \in DOMAIN handed :
    ~JSONparse(cleanJson(handed[i].span)).ok =>
      /\ Discarded(i)
      /\ \A o \in Range(Following(i)) :
           WellFormed(SubSeq(Cs(stream), o[1], o[2])) =>
             \E j \in (i + 1)..Len(handed) :
               <<handed[j].from, handed[j].to>> = o /\ handed[j].alerts # <<>>

\* C21: every structured invocation the transport reported has produced one
\* alert from its fields and one acknowledgement sent over the session.
C21_InvocationHandledAndAcknowledged ==
  \A k \in DOMAIN invoked : invoked[k].alerts = 1 /\ invoked[k].acks = 1

\* C22: the stored text buffer is never longer than 5,000 characters,
\* whatever the size of the fragments appended.
C22_BufferWithinCap ==
  Weight(textBuffer) <= BufferCap

\* C22 witness: one message made the buffer longer than the cap, the cut fired
\* and the buffer that call stored is the kept tail.
C22_Witness ==
  /\ truncations # <<>>
  /\ Weight(stream) > BufferCap
  /\ Weight(textBuffer) = KeepTail

RECURSIVE Backslashes(_, _)
\* The length of the run of backslashes of s that starts at j.
Backslashes(s, j) ==
  IF j <= Len(s) /\ s[j] = "\\" THEN 1 + Backslashes(s, j + 1) ELSE 0

\* C23: in a string that opens with k backslashes and a quote, the quote ends
\* the string exactly when k is even: the span then ends at the brace right
\* after that quote, and for odd k at the brace after the next quote.
C23_EscapeParity ==
  \A i \in DOMAIN handed :
    LET s == Cs(stream)
        f == handed[i].from
        k == Backslashes(s, f + 2)
    IN /\ s[f + 1] = "\""
       /\ s[f + 2 + k] = "\""
       /\ handed[i].to = f + k + (IF k % 2 = 0 THEN 3 ELSE 5)

\* C23 witness: spans with one, two and three backslashes before the quote
\* have been handed, one of them delivered across calls.
C23_Witness ==
  /\ \A k \in 1..3 : \E i \in DOMAIN handed : Backslashes(Cs(stream), handed[i].from + 2) = k
  /\ \E i \in DOMAIN handed : handed[i].carried

\* C24: when a call returns, the stored buffer holds no complete object: the
\* text from its first opening brace on has no balanced span.
C24_NoCompleteObjectLeft ==
  RefObjects(Cs(textBuffer)) = <<>>

\* C24 witness: the last call handed two spans or more in its one pass and
\* left an object that is still open in the buffer.
C24_Witness ==
  /\ lastCall.spans >= 2
  /\ IndexOf(textBuffer, "{") # 0

\* The text of a call: what the step appends to the stream.
Fragment == SubSeq(stream', Len(stream) + 1, Len(stream'))

\* C25: when the appended fragment completes no object and the buffer stays
\* within the cap, the call emits no alert, hands no span and leaves the
\* previous buffer followed by the fragment, run for run.
C25_PartialKeptVerbatim ==
  [][(/\ Fragment # <<>>
      /\ RefObjects(Cs(textBuffer \o Fragment)) = <<>>
      /\ Weight(textBuffer \o Fragment) <= BufferCap)
       => (/\ textBuffer' = textBuffer \o Fragment
           /\ handed' = handed
           /\ delivered' = delivered)]_vars

\* C25 witness: the last call carried text and handed nothing, no cut has
\* fired, and the buffer holds an open object after text handed earlier.
C25_Witness ==
  /\ ~lastCall.empty /\ lastCall.spans = 0
  /\ stream # <<>>
  /\ handed # <<>>
  /\ truncations = <<>>
  /\ IndexOf(textBuffer, "{") # 0

\* The alerts of a span that is parsed as it stands, nothing stripped.
BareAlerts(span, t) ==
  IF JSONparse(span).ok /\ Truthy(Get(JSONparse(span), "status"))
  THEN <<normalize(JSONparse(span), t)>> ELSE <<>>

\* C26: every handed span that is an object as it stands yields the alert of
\* that bare object, whether or not code-fence markers surrounded it; the
\* stripping changes no string field of the object.
C26_FenceStrippingPreservesObject ==
  \A i \in DOMAIN handed :
    JSONparse(handed[i].span).ok => handed[i].alerts = BareAlerts(handed[i].span, now)

\* The last n elements of a sequence.
LastN(s, n) == SubSeq(s, IF Len(s) > n THEN Len(s) - n + 1 ELSE 1, Len(s))

\* C27: the blob of every artifact is the ring buffer as it stood when the
\* grace delay fired (the last five segments accepted by then, in order), and
\* its reason holds the diagnosis and the symptoms of the alert that started
\* that grace delay.
C27_SnapshotAtFire ==
  \A i \in DOMAIN artifacts :
    LET a == artifacts[i]
        starter == delivered[a.alert].alert
    IN /\ a.blob = LastN(SubSeq(accepted, 1, a.upto), RingCap)
       /\ a.reason = <<[diagnosis |-> starter.diagnosis, symptoms |-> starter.symptoms]>>

\* The CRITICAL alerts before alert k whose trigger was admitted less than
\* ten seconds before k arrived.
RecentTriggers(k) ==
  {j \in Criticals :
     j < k /\ Triggered(IdOf(j)) /\ delivered[k].at - delivered[j].at < DebounceMs}
\* The artifacts published in the ten seconds before alert k arrived.
RecentArtifacts(k) ==
  {i \in DOMAIN artifacts :
     artifacts[i].at <= delivered[k].at /\ delivered[k].at - artifacts[i].at < DebounceMs}

\* C28 (as amended): a CRITICAL alert's replay request is dropped exactly when
\* a trigger was admitted, that is a grace delay was started, less than ten
\* seconds before it, whether or not that trigger produced an artifact.
C28_DroppedOnlyAfterRecentTrigger ==
  \A k \in Criticals : ~Triggered(IdOf(k)) <=> RecentTriggers(k) # {}

\* C28 witness: a CRITICAL alert dropped after a trigger whose grace delay
\* elapsed on an empty ring buffer, with no artifact published at all.
C28_Witness ==
  /\ artifacts = <<>>
  /\ \E k \in Criticals :
       /\ ~Triggered(IdOf(k))
       /\ \E j \in RecentTriggers(k) :
            \E i \in DOMAIN fires : fires[i].alert = IdOf(j) /\ fires[i].ring = 0
                                     /\ fires[i].at <= delivered[k].at

\* C28 (original): a CRITICAL alert's replay request is dropped only if an
\* artifact was published in the ten seconds before it.
C28_Original ==
  \A k \in Criticals : ~Triggered(IdOf(k)) => RecentArtifacts(k) # {}

\* The alerts that are not CRITICAL, and the steps that deliver only such.
Calm == {k \in DOMAIN delivered : delivered[k].alert.status \in {NORMAL, WARNING}}
CalmDelivery ==
  /\ Len(delivered') > Len(delivered)
  /\ \A k \in (Len(delivered) + 1)..Len(delivered') :
       delivered'[k].alert.status \in {NORMAL, WARNING}
CalmIds == {IdOf(k) : k \in Calm}

\* C29: an alert whose status is NORMAL or WARNING never produces an
\* artifact and never starts a grace delay, and the step that delivers it
\* leaves the debounce timestamp, the pending timers, the ring buffer and the
\* published replay unchanged.
C29_CalmAlertsLeaveReplayAlone ==
  /\ [](/\ ArtifactsOf(CalmIds) = {}
        /\ \A id \in CalmIds : ~Triggered(id))
  /\ [][CalmDelivery => UNCHANGED <<lastAlertTime, replayTimers, replayChunks,
                                    artifacts, replayUrl, replayReason>>]_vars

\* C29 witness: a NORMAL or WARNING alert delivered on each path more than
\* ten seconds after the last trigger, with a segment in the ring buffer.
C29_Witness ==
  /\ replayChunks # <<>>
  /\ lastAlertTime > 0
  /\ \E k, j \in Calm :
       /\ delivered[k].path = "live" /\ delivered[j].path = "ws"
       /\ delivered[k].at - lastAlertTime >= DebounceMs
       /\ delivered[j].at - lastAlertTime >= DebounceMs

\* A step of the video interval that sent a frame.
FrameSent == media' # media /\ media'.kind = "video" /\ media'.sent

\* C30: a tick of the video interval sends a frame only when isConnected is
\* true and the frame goes to the client or socket the ref names at that
\* moment, whose session handle is set (live mode) or whose socket is open
\* (socket mode).
C30_FrameOnlyWhenConnectedAndValid ==
  [][FrameSent =>
       /\ isConnected
       /\ IF mode = "LIVE_CLIENT"
          THEN /\ liveClientRef # 0
               /\ media'.target = liveClientRef
               /\ clients[liveClientRef].session
          ELSE /\ wsRef # 0
               /\ media'.target = wsRef
               /\ sockets[wsRef].readyState = "OPEN"]_vars

\* C30 witness: a frame was sent to the second client, the one a reconnect made.
C30_Witness ==
  /\ media.kind = "video" /\ media.sent
  /\ mode = "LIVE_CLIENT"
  /\ media.target = 2 /\ liveClientRef = 2
  /\ isConnected

\* C31: in fallback-socket mode an audio chunk is sent only on a socket that
\* is open at the moment of the send.
C31_WsAudioOnlyWhileOpen ==
  (media.kind = "wsaudio" /\ media.sent) => media.openAtSend

\* The text that the session of client c has delivered so far.
RECURSIVE ReceivedBy(_, _)
ReceivedBy(c, log) ==
  IF log = <<>> THEN <<>>
  ELSE (IF log[1].client = c THEN log[1].text ELSE <<>>) \o ReceivedBy(c, Tail(log))
IsSuffix(a, b) == Len(a) <= Len(b) /\ SubSeq(b, Len(b) - Len(a) + 1, Len(b)) = a
Gone(c) == clients[c].transport \in {"closed", "failed"}

\* C32: every connection attempt constructs a new client with an empty text
\* buffer or a new socket; a transport that has closed never opens again and
\* never becomes the current one; and the text buffer of a client holds only
\* text that its own session delivered.
C32_FreshHandleAndBufferPerAttempt ==
  /\ [](\A c \in DOMAIN clients :
          IsSuffix(clients[c].textBuffer, ReceivedBy(c, received)))
  /\ [][/\ Len(clients') > Len(clients) =>
            /\ clients' = Append([c \in DOMAIN clients |-> clients'[c]], NewClient)
            /\ \A c \in DOMAIN clients : clients'[c].transport = clients[c].transport
        /\ Len(sockets') > Len(sockets) =>
            /\ sockets'[Len(sockets')] = NewSocket
            /\ wsRef' = Len(sockets) + 1
        /\ \A c \in DOMAIN clients : Gone(c) => clients'[c].transport = clients[c].transport
        /\ \A w \in DOMAIN sockets :
             sockets[w].readyState = "CLOSED" => sockets'[w].readyState = "CLOSED"
        /\ liveClientRef' # liveClientRef => clients'[liveClientRef'].transport = "open"
        /\ Len(clients') >= Len(clients) /\ Len(sockets') >= Len(sockets)]_vars

\* C32 witness: the first client buffered the opening part of an object, a
\* later client received the closing part, and no alert came of it.
C32_Witness ==
  /\ delivered = <<>>
  /\ \E i, j \in DOMAIN received :
       /\ i < j
       /\ received[i].client < received[j].client
       /\ received[i].text = PartOpen /\ received[j].text = PartClose
       /\ received[j].alerts = 0 /\ received[j].before = <<>>

\* Ten times the value of a number the texts of the model contain.
Tenths(val) ==
  CASE val.v = <<"0">> -> 0
    [] val.v = <<"0.9">> -> 9
    [] val.v = <<"2.5">> -> 25
    [] val.v = <<"12">> -> 120
InUnitRange(val) == val.k = "number" /\ Tenths(val) >= 0 /\ Tenths(val) <= 10

\* C33: every alert handed to handleNewAlert has a confidence that is a
\* number between 0 and 1.
C33_ConfidenceInUnitRange ==
  \A k \in DOMAIN delivered : InUnitRange(delivered[k].alert.confidence)

\* The samples of the last block that lie inside [-1,1], and the exact value
\* of a sample times its scale, as a numerator over SampleDen.
InRange == {i \in DOMAIN pcm.input :
              ~pcm.input[i].nan /\ pcm.input[i].num >= -SampleDen /\ pcm.input[i].num <= SampleDen}
Scaled(i) ==
  IF pcm.input[i].num < 0 THEN pcm.input[i].num * PcmNegScale
  ELSE pcm.input[i].num * PcmPosScale
Abs(n) == IF n < 0 THEN -n ELSE n

\* C34 (as amended): for a sample s inside [-1,1] the conversion yields
\* s*32767 when s is at least 0 and s*32768 when s is negative, with the
\* fraction dropped: the result is the integer nearest to zero of the two
\* that enclose the product.
C34_ScaledAndTruncated ==
  \A i \in InRange :
    /\ SampleDen * Abs(pcm.output[i]) <= Abs(Scaled(i))
    /\ Abs(Scaled(i)) < SampleDen * (Abs(pcm.output[i]) + 1)
    /\ (Scaled(i) >= 0 => pcm.output[i] >= 0) /\ (Scaled(i) <= 0 => pcm.output[i] <= 0)

\* C34 witness: a positive sample inside [-1,1] whose product has a fraction
\* of a half or more was converted next to a negative one, each to its
\* product without the fraction.
C34_Witness ==
  \E i, j \in InRange :
    /\ pcm.input[i].num > 0
    /\ 2 * (Scaled(i) % SampleDen) >= SampleDen
    /\ pcm.output[i] = Scaled(i) \div SampleDen
    /\ pcm.input[j].num < 0
    /\ pcm.output[j] = -((-Scaled(j)) \div SampleDen)

\* C34 (original): for a sample s inside [-1,1] the conversion yields the
\* integer nearest to s*32767 or s*32768.
C34_Original ==
  \A i \in InRange : 2 * Abs(Scaled(i) - SampleDen * pcm.output[i]) <= SampleDen

\* Client c was made by a reconnect, its connection attempt succeeded, and
\* its transport has reported neither close nor error.
Succeeded(c) == clients[c].processor \/ clients[c].stopped
HealthyReconnect(c) == c > 1 /\ Succeeded(c) /\ Healthy(c)

\* C35: in live-client mode, while the transport of a client that a
\* successful reconnect made reports no close and no error, that client stays
\* the current one and is not torn down, the session stays connected and no
\* reconnect is pending.
C35_HealthyReconnectStays ==
  mode = "LIVE_CLIENT" =>
    \A c \in DOMAIN clients :
      HealthyReconnect(c) =>
        /\ liveClientRef = c /\ ~clients[c].stopped
        /\ isConnected
        /\ timers = {}

\* C36: a message that arrives on the session of a client that has been
\* disconnected, or after a newer client was constructed, produces no alert.
C36_OnlyCurrentSessionDelivers ==
  \A i \in DOMAIN received :
    (received[i].stopped \/ received[i].newest > received[i].client)
      => received[i].alerts = 0

\* A close or error is reported by a client that has been disconnected or
\* that a newer client has superseded, or by a socket that is not the current
\* one.
StaleEvent ==
  \/ \E c \in DOMAIN clients :
       /\ c # liveClientRef
       /\ clients[c].stopped \/ c < Len(clients)
       /\ \/ clients[c].transport = "open" /\ clients'[c].transport = "closed"
          \/ ~clients[c].errored /\ clients'[c].errored
  \/ \E w \in DOMAIN sockets :
       /\ w # wsRef
       /\ \/ sockets[w].readyState # "CLOSED" /\ sockets'[w].readyState = "CLOSED"
          \/ ~sockets[w].errored /\ sockets'[w].errored
CurrentHealthy ==
  IF mode = "LIVE_CLIENT"
  THEN liveClientRef # 0 /\ Healthy(liveClientRef) /\ ~clients[liveClientRef].stopped
  ELSE wsRef # 0 /\ sockets[wsRef].readyState = "OPEN" /\ ~sockets[wsRef].errored

\* C37: a close or error event of a transport that is no longer the current
\* one changes neither isConnected nor the pending reconnect timers, and
\* whenever the current transport is open and has reported neither close nor
\* error, isConnected is true.
C37_StaleEventsIgnored ==
  /\ [](started /\ CurrentHealthy => isConnected)
  /\ [][StaleEvent => UNCHANGED <<isConnected, timers, reconnectTimeoutRef>>]_vars

\* The places of the delivered text where {"status":"CRITICAL"} stands, the
\* opening braces that the delivered text never balances, and the places
\* whose object was emitted as an alert.
Occurrences ==
  {p \in 1..(Len(stream) - Len(ObjCritical) + 1) :
     SubSeq(stream, p, p + Len(ObjCritical) - 1) = ObjCritical}
NeverBalanced(q) == stream[q].c = "{" /\ scanFrom(stream, q, 0, FALSE, FALSE) = 0
EmittedAt(p) ==
  \E i \in DOMAIN handed :
    handed[i].from = p /\ handed[i].to = p + Len(ObjCritical) - 1 /\ handed[i].alerts # <<>>
\* The opening brace at q was part of a span handed before the i-th, or an
\* overflow cut dropped it before the i-th span was handed.
ConsumedBefore(q, i) ==
  \E j \in 1..(i - 1) : handed[j].from <= q /\ q <= handed[j].to
CutBefore(q, i) ==
  \E k \in DOMAIN truncations : truncations[k].before < i /\ q <= truncations[k].window
\* The text of the message that the step delivers.
Arriving == SubSeq(stream', Len(stream) + 1, Len(stream'))

Ids(h) == {h[i].id : i \in DOMAIN h}
\* The entries of the history that were, and that were not, in it before the step.
KeptEntries == SelectSeq(history', LAMBDA e : e.id \in Ids(history))
NewEntries == SelectSeq(history', LAMBDA e : e.id \notin Ids(history))
Newest == delivered[Len(delivered)].alert
Latest == history[Len(history)]
\* Alert a was left out as a repetition of the entry e.
Repeats(a, e) ==
  StrictEq(e.diagnosis, a.diagnosis) /\ DiffLess(a.timestamp, e.timestamp, DedupeMs)

\* C39: after any sequence of alerts the incident history holds at most 10
\* entries, each of them a published alert, in arrival order; an alert
\* published after an entry and before the next one is a repetition of that
\* entry, so every other alert was added; a step that adds entries puts them
\* after the ones kept, and removes the oldest entries, and only as many of
\* them as the eleventh and later entries force out.
C39_HistoryKeepsLastTen ==
  /\ [](/\ Len(history) <= HistoryCap
        /\ \A i \in DOMAIN history :
             \E j \in DOMAIN delivered : delivered[j].alert = history[i]
        /\ \A i, j \in DOMAIN history : i < j => history[i].id < history[j].id
        /\ delivered # <<>> => history # <<>>
        /\ \A j \in DOMAIN delivered : \A i \in DOMAIN history :
             (/\ history[i].id < delivered[j].alert.id
              /\ (i < Len(history) => delivered[j].alert.id < history[i + 1].id))
             => Repeats(delivered[j].alert, history[i]))
  /\ [][history' # history =>
          /\ history' = KeptEntries \o NewEntries
          /\ Len(history') = IF Len(history) + Len(NewEntries) > HistoryCap
                              THEN HistoryCap ELSE Len(history) + Len(NewEntries)
          /\ KeptEntries = SubSeq(history, Len(history) - Len(KeptEntries) + 1, Len(history))]_vars
C39_Witness ==
  /\ Len(delivered) > HistoryCap
  /\ Len(history) = HistoryCap
  /\ history[1].id > delivered[1].alert.id
  /\ Latest = Newest

====
